---- MODULE Spec2Model ----
(***************************************************************************)
(* City finders of the bike-trip repository: the online resolver with its  *)
(* cache (efficient, comprehensive and hybrid finders), the offline        *)
(* gazetteer tier, the coordinate reducers, the find_cities_* loops, the   *)
(* cache file, the name filter, the route orderer, the west-to-east list   *)
(* of final_cities_with_nyc and the thread pool of main.py.                *)
(*                                                                         *)
(* Representation.                                                         *)
(*  - A coordinate is an index into Coord, the table of the (lat, lon)     *)
(*    pairs the model uses, in units of 1e-7 degree.  The table holds      *)
(*    every key of the two major_cities literals, six track points and     *)
(*    two points at one distance from the first track point; its rows are  *)
(*    pairwise different, so index equality is the tuple equality of the   *)
(*    code.                                                                *)
(*  - calculate_distance is the haversine value of the code at these       *)
(*    points, in whole centimetres (floor).  On the rows of the track      *)
(*    points the floor keeps the order of the float values and their       *)
(*    comparisons with the thresholds 2, 5, 25, 30 and 50 km.              *)
(*  - A text is a sequence of tokens: "," and " " stand for themselves,    *)
(*    every other token is a run of characters with no comma and no        *)
(*    whitespace.  None is NoneVal; a str s is Str(s).                     *)
(*  - The cache file is the sequence of the chunks json.dump writes; a    *)
(*    text that is not a complete object makes json.load raise.            *)
(*  - The names given to is_likely_city and clean_city_list are sequences  *)
(*    of single characters; the patterns of the filter are sequences of    *)
(*    anchors, literal runs and repeated character classes.                *)
(*  - A longitude of final_cities_with_nyc is in units of 1e-4 degree.     *)
(*  - The pool of main.py is the tasks of its executor, one per submitted  *)
(*    coordinate, each at its position in process_coordinate; at most      *)
(*    MAX_WORKERS of them run.  The length of a sleep is not modelled.     *)
(***************************************************************************)
EXTENDS Integers, Naturals, Sequences, FiniteSets

Coord ==
  << <<340522000, -1182437000>>,
     <<377749000, -1224194000>>,
     <<341478000, -1181445000>>,
     <<336846000, -1178265000>>,
     <<337701000, -1181937000>>,
     <<341808000, -1183090000>>,
     <<340736000, -1173137000>>,
     <<341064000, -1175931000>>,
     <<334484000, -1120740000>>,
     <<322226000, -1109747000>>,
     <<351983000, -1116513000>>,
     <<351859000, -1116643000>>,
     <<350844000, -1066504000>>,
     <<356869000, -1059378000>>,
     <<364072000, -1055731000>>,
     <<355281000, -1087426000>>,
     <<361540000, -959928000>>,
     <<354676000, -975164000>>,
     <<357478000, -953697000>>,
     <<352010000, -918318000>>,
     <<399612000, -829988000>>,
     <<397589000, -841916000>>,
     <<391031000, -845120000>>,
     <<402732000, -768847000>>,
     <<361627000, -867816000>>,
     <<350456000, -853097000>>,
     <<407128000, -740060000>>,
     <<351000000, -1066200000>>,
     <<352000000, -1018000000>>,
     <<352000003, -1018000003>>,
     <<352100000, -1018000000>>,
     <<351900000, -1116600000>>,
     <<351000000, -1065900000>>,
     <<351000000, -1066500000>> >>

DistCm ==
  << <<0, 55912057, 1401538, 5616478, 3170562, 1551184, 8570104, 6022158, 57426582, 70654158, 61639570, 61499305, 106709439, 113650289, 117931494, 88263489, 203312660, 189652002, 208978766, 241295088, 317625181, 307411732, 304591959, 369538600, 285909595, 300455384, 393574625, 106994412, 150826794, 150826792, 150827070, 61545677, 107266983, 106721847>>,
     <<55912057, 0, 55726674, 61524166, 58606119, 54441172, 61685648, 59579996, 105081611, 121020720, 100371392, 100306887, 144028283, 148502365, 149989501, 124419885, 234698777, 223056620, 241174151, 273720253, 339374483, 329648678, 328082327, 389998739, 315201378, 331300057, 412908616, 144243951, 186155385, 186155382, 186126806, 100328202, 144505613, 143982307>>,
     <<1401538, 55726674, 0, 5927776, 4224274, 1557346, 7693064, 5096277, 56621118, 70052741, 60504974, 60366281, 105638184, 112529185, 116757520, 87132843, 202186233, 188560246, 207870908, 240204188, 316377359, 306168432, 303365043, 368282263, 284770872, 299349114, 392307666, 105921787, 149753410, 149753408, 149753014, 60412132, 106194466, 105649113>>,
     <<5616478, 61524166, 5927776, 0, 3526422, 7089264, 6412476, 5161266, 53356141, 65950487, 59064675, 58915341, 103674913, 110884553, 115490331, 85591385, 200521917, 186670469, 206079415, 238293009, 315643784, 305395119, 302446624, 367620878, 283170860, 297526051, 391746201, 103966779, 147765799, 147765796, 147769615, 58964715, 104238451, 103695121>>,
     <<3170562, 58606119, 4224274, 3526422, 0, 4688903, 8793069, 6684469, 56776875, 69471163, 62018574, 61872607, 106814975, 113931817, 118416676, 88596872, 203589234, 189803284, 209185321, 241435782, 318402718, 308168329, 305272570, 370354757, 286223688, 300646338, 394442813, 107104566, 150921846, 150921843, 150924479, 61920867, 107376605, 106832537>>,
     <<1551184, 54441172, 1557346, 7089264, 4688903, 0, 9238571, 6640053, 58165572, 71609038, 61900921, 61763559, 107077781, 113932282, 118113015, 88529482, 203582933, 189983836, 209282307, 241627832, 317641077, 307438603, 304657138, 369533208, 286156352, 300760960, 393542138, 107360472, 151190349, 151190347, 151189504, 61808970, 107633211, 107087737>>,
     <<8570104, 61685648, 7693064, 6412476, 8793069, 9238571, 0, 2598631, 48928154, 62487607, 53284277, 53140260, 98220995, 105245241, 109658396, 79885245, 194909774, 181187411, 200540098, 232827397, 309609649, 299375470, 296483940, 361562295, 277529586, 292011212, 385653348, 98507801, 142337614, 142337612, 142338792, 53187871, 98780192, 98235419>>,
     <<6022158, 59579996, 5096277, 5161266, 6684469, 6640053, 2598631, 0, 51526004, 65053244, 55680143, 55538193, 100699321, 107672347, 112015629, 82296227, 197337114, 183650976, 202988026, 235293159, 311852229, 301627002, 298767372, 363788449, 279944950, 294462822, 387856227, 100984886, 144816890, 144816887, 144817459, 55585121, 101257403, 100712376>>,
     <<57426582, 105081611, 56621118, 53356141, 56776875, 58165572, 48928154, 51526004, 0, 17066385, 19841344, 19683035, 53046800, 61436483, 67762331, 38297464, 149694543, 135216089, 154820940, 186579221, 267793132, 257418585, 253873912, 319885850, 232221400, 245910978, 344369765, 53364192, 96288976, 96288974, 96305917, 19735337, 53622982, 53105571>>,
     <<70654158, 121020720, 70052741, 65950487, 69471163, 71609038, 62487607, 65053244, 17066385, 0, 33674631, 33561884, 51123798, 60333895, 67992402, 42134406, 144390829, 129299497, 148936864, 179838386, 264389777, 253969247, 249964834, 316356883, 226167354, 239003091, 341024423, 51448961, 91045611, 91045609, 91081354, 33599091, 51666580, 51231921>>,
     <<61639570, 100371392, 60504974, 59064675, 62018574, 61900921, 53284277, 55680143, 19841344, 33674631, 0, 181567, 45484981, 52035480, 56428167, 26628611, 141682373, 128148001, 147396821, 179784868, 256817272, 246534282, 243474284, 308851256, 224270028, 238873912, 333085131, 45752356, 89475479, 89475476, 89470054, 121522, 46024948, 45479763>>,
     <<61499305, 100306887, 60366281, 58915341, 61872607, 61763559, 53140260, 55538193, 19683035, 33561884, 181567, 0, 45602960, 52171053, 56579027, 26766625, 141820378, 128278725, 147531153, 179916293, 256976173, 246692561, 243629825, 309010965, 224410383, 239008578, 333246330, 45870899, 89600440, 89600437, 89595179, 60045, 46143530, 45598267>>,
     <<106709439, 144028283, 105638184, 103674913, 106814975, 107077781, 98220995, 100699321, 53046800, 51123798, 45484981, 45602960, 0, 9306659, 17631328, 19615458, 97016109, 82995689, 102434604, 134621462, 214810589, 204425333, 200832187, 266895268, 179672478, 193855061, 291417474, 326482, 44117568, 44117566, 44118236, 45563886, 576263, 173502>>,
     <<113650289, 148502365, 112529185, 110884553, 113931817, 113932282, 105245241, 107672347, 61436483, 60333895, 52035480, 52171053, 9306659, 0, 8654500, 25417102, 89665127, 76177456, 95364920, 127788700, 206383903, 196018908, 192573320, 258479362, 172292147, 186839850, 282941923, 8990431, 37869985, 37869982, 37851953, 52126177, 8805605, 9179592>>,
     <<117931494, 149989501, 116757520, 115490331, 118416676, 118113015, 109658396, 112015629, 67762331, 67992402, 56428167, 56579027, 17631328, 8654500, 0, 30150671, 85886225, 73260544, 91947454, 124537609, 200651890, 190330363, 187132513, 252730539, 168188288, 183205135, 277080811, 17335365, 36575210, 36575207, 36532577, 56529109, 17189352, 17484349>>,
     <<88263489, 124419885, 87132843, 85591385, 88596872, 88529482, 79885245, 82296227, 38297464, 42134406, 26628611, 26766625, 19615458, 25417102, 30150671, 0, 115053810, 101575745, 120781689, 153198796, 230802336, 220480872, 217260448, 282879802, 197648727, 212255337, 307219936, 19838426, 63046953, 63046950, 63036734, 26720915, 20102767, 19574300>>,
     <<203312660, 234698777, 202186233, 200521917, 203589234, 203582933, 194909774, 197337114, 149694543, 144390829, 141682373, 141820378, 97016109, 89665127, 85886225, 115053810, 0, 15716283, 7201332, 39045812, 121245945, 110850469, 106200715, 172724463, 82664955, 97321240, 197521563, 96713425, 53506788, 53506789, 53481661, 141774718, 96444685, 96982174>>,
     <<189652002, 223056620, 188560246, 186670469, 189803284, 189983836, 181187411, 183650976, 135216089, 129299497, 128148001, 128278725, 82995689, 76177456, 73260544, 101575745, 15716283, 0, 19655104, 51644031, 136923700, 126535453, 121809412, 188318672, 97052750, 110864301, 213126908, 82703703, 38968235, 38968238, 38957511, 128235470, 82432019, 82975388>>,
     <<208978766, 241174151, 207870908, 206079415, 209185321, 209282307, 200540098, 202988026, 154820940, 148936864, 147396821, 147531153, 102434604, 95364920, 91947454, 120781689, 7201332, 19655104, 0, 32607091, 118149543, 107817173, 102797343, 169215119, 77413324, 91478663, 194040026, 102138114, 58536458, 58536460, 58521408, 147486708, 101867403, 102408827>>,
     <<241295088, 273720253, 240204188, 238293009, 241435782, 241627832, 232827397, 235293159, 186579221, 179838386, 179784868, 179916293, 134621462, 127788700, 124537609, 153198796, 39045812, 51644031, 32607091, 0, 94054121, 84288905, 78003744, 142789153, 46843983, 59331766, 167491894, 134331358, 90534839, 90534842, 90529310, 179872810, 134059371, 134603342>>,
     <<317625181, 339374483, 316377359, 315643784, 318402718, 317641077, 309609649, 311852229, 267793132, 264389777, 256817272, 256976173, 214810589, 206383903, 200651890, 230802336, 121245945, 136923700, 118149543, 94054121, 0, 10426550, 16107177, 52095757, 53660994, 58330352, 76643988, 214489539, 173540810, 173540811, 173496790, 256923613, 214235810, 214743282>>,
     <<307411732, 329648678, 306168432, 305395119, 308168329, 307438603, 299375470, 301627002, 257418585, 253969247, 246534282, 246692561, 204425333, 196018908, 190330363, 220480872, 110850469, 126535453, 107817173, 84288905, 10426550, 0, 7794080, 62469938, 45979386, 53330547, 87058630, 204104554, 163114392, 163114393, 163070406, 246640207, 203850373, 204358751>>,
     <<304591959, 328082327, 303365043, 302446624, 305272570, 304657138, 296483940, 298767372, 253873912, 249964834, 243474284, 243629825, 200832187, 192573320, 187132513, 217260448, 106200715, 121809412, 102797343, 78003744, 16107177, 7794080, 0, 66526844, 38316961, 45668381, 91321290, 200513712, 158963562, 158963563, 158923843, 243578375, 200256228, 200771208>>,
     <<369538600, 389998739, 368282263, 367620878, 370354757, 369533208, 361562295, 363788449, 319885850, 316356883, 308851256, 309010965, 266895268, 258479362, 252730539, 282879802, 172724463, 188318672, 169215119, 142789153, 52095757, 62469938, 66526844, 0, 97715478, 94153145, 24827574, 266574492, 225414484, 225414486, 225372992, 308958139, 266320304, 266828685>>,
     <<285909595, 315201378, 284770872, 283170860, 286223688, 286156352, 277529586, 279944950, 232221400, 226167354, 224270028, 224410383, 179672478, 172292147, 168188288, 197648727, 82664955, 97052750, 77413324, 46843983, 53660994, 45979386, 38316961, 97715478, 0, 18203256, 122076142, 179370882, 135932625, 135932627, 135915498, 224363951, 179101741, 179640020>>,
     <<300455384, 331300057, 299349114, 297526051, 300646338, 300760960, 292011212, 294462822, 245910978, 239003091, 238873912, 239008578, 193855061, 186839850, 183205135, 212255337, 97321240, 110864301, 91478663, 59331766, 58330352, 53330547, 45668381, 94153145, 18203256, 0, 117383325, 193561799, 149814537, 149814540, 149806600, 238964026, 193290367, 193833227>>,
     <<393574625, 412908616, 392307666, 391746201, 394442813, 393542138, 385653348, 387856227, 344369765, 341024423, 333085131, 333246330, 291417474, 282941923, 277080811, 307219936, 197521563, 213126908, 194040026, 167491894, 76643988, 87058630, 91321290, 24827574, 122076142, 117383325, 0, 291095857, 250127836, 250127837, 250085285, 333193012, 290843126, 291348591>>,
     <<106994412, 144243951, 105921787, 103966779, 107104566, 107360472, 98507801, 100984886, 53364192, 51448961, 45752356, 45870899, 326482, 8990431, 17335365, 19838426, 96713425, 82703703, 102138114, 134331358, 214489539, 204104554, 200513712, 266574492, 179370882, 193561799, 291095857, 0, 43832412, 43832409, 43832678, 45831639, 272922, 272922>>,
     <<150826794, 186155385, 149753410, 147765799, 150921846, 151190349, 142337614, 144816890, 96288976, 91045611, 89475479, 89600440, 44117568, 37869985, 36575210, 63046953, 53506788, 38968235, 58536458, 90534839, 173540810, 163114392, 158963562, 225414484, 135932625, 149814537, 250127836, 43832412, 0, 4, 111194, 89559083, 43559825, 44104999>>,
     <<150826792, 186155382, 149753408, 147765796, 150921843, 151190347, 142337612, 144816887, 96288974, 91045609, 89475476, 89600437, 44117566, 37869982, 36575207, 63046950, 53506789, 38968238, 58536460, 90534842, 173540811, 163114393, 158963563, 225414486, 135932627, 149814540, 250127837, 43832409, 4, 0, 111191, 89559080, 43559822, 44104996>>,
     <<150827070, 186126806, 149753014, 147769615, 150924479, 151189504, 142338792, 144817459, 96305917, 91081354, 89470054, 89595179, 44118236, 37851953, 36532577, 63036734, 53481661, 38957511, 58521408, 90529310, 173496790, 163070406, 158923843, 225372992, 135915498, 149806600, 250085285, 43832678, 111194, 111191, 0, 89553767, 43560126, 44105230>>,
     <<61545677, 100328202, 60412132, 58964715, 61920867, 61808970, 53187871, 55585121, 19735337, 33599091, 121522, 60045, 45563886, 52126177, 56529109, 26720915, 141774718, 128235470, 147486708, 179872810, 256923613, 246640207, 243578375, 308958139, 224363951, 238964026, 333193012, 45831639, 89559083, 89559080, 89553767, 0, 46104258, 45559020>>,
     <<107266983, 144505613, 106194466, 104238451, 107376605, 107633211, 98780192, 101257403, 53622982, 51666580, 46024948, 46143530, 576263, 8805605, 17189352, 20102767, 96444685, 82432019, 101867403, 134059371, 214235810, 203850373, 200256228, 266320304, 179101741, 193290367, 290843126, 272922, 43559825, 43559822, 43560126, 46104258, 0, 545844>>,
     <<106721847, 143982307, 105649113, 103695121, 106832537, 107087737, 98235419, 100712376, 53105571, 51231921, 45479763, 45598267, 173502, 9179592, 17484349, 19574300, 96982174, 82975388, 102408827, 134603342, 214743282, 204358751, 200771208, 266828685, 179640020, 193833227, 291348591, 272922, 44104999, 44104996, 44105230, 45559020, 545844, 0>> >>

hybrid_major_cities_literal ==
  << <<1, <<"Los", " ", "Angeles">>>>,
     <<2, <<"San", " ", "Francisco">>>>,
     <<3, <<"Pasadena">>>>,
     <<4, <<"Irvine">>>>,
     <<5, <<"Long", " ", "Beach">>>>,
     <<6, <<"Burbank">>>>,
     <<7, <<"Fontana">>>>,
     <<8, <<"Rancho", " ", "Cucamonga">>>>,
     <<8, <<"Pomona">>>>,
     <<8, <<"Victorville">>>>,
     <<9, <<"Phoenix">>>>,
     <<10, <<"Tucson">>>>,
     <<11, <<"Flagstaff">>>>,
     <<12, <<"Kingman">>>>,
     <<12, <<"Bullhead", " ", "City">>>>,
     <<13, <<"Albuquerque">>>>,
     <<14, <<"Santa", " ", "Fe">>>>,
     <<15, <<"Taos">>>>,
     <<16, <<"Gallup">>>>,
     <<17, <<"Tulsa">>>>,
     <<18, <<"Oklahoma", " ", "City">>>>,
     <<19, <<"Tahlequah">>>>,
     <<20, <<"St.", " ", "Francisville">>>>,
     <<21, <<"Columbus">>>>,
     <<22, <<"Dayton">>>>,
     <<23, <<"Cincinnati">>>>,
     <<21, <<"Xenia">>>>,
     <<21, <<"Zanesville">>>>,
     <<24, <<"Harrisburg">>>>,
     <<24, <<"Allentown">>>>,
     <<24, <<"Bethlehem">>>>,
     <<24, <<"Easton">>>> >>

offline_major_cities_literal ==
  << <<1, <<"Los", " ", "Angeles">>>>,
     <<2, <<"San", " ", "Francisco">>>>,
     <<1, <<"Santa", " ", "Monica">>>>,
     <<3, <<"Pasadena">>>>,
     <<4, <<"Irvine">>>>,
     <<5, <<"Long", " ", "Beach">>>>,
     <<6, <<"Burbank">>>>,
     <<7, <<"Fontana">>>>,
     <<8, <<"Rancho", " ", "Cucamonga">>>>,
     <<8, <<"Pomona">>>>,
     <<8, <<"Victorville">>>>,
     <<9, <<"Phoenix">>>>,
     <<10, <<"Tucson">>>>,
     <<11, <<"Flagstaff">>>>,
     <<12, <<"Flagstaff">>>>,
     <<12, <<"Kingman">>>>,
     <<12, <<"Bullhead", " ", "City">>>>,
     <<13, <<"Albuquerque">>>>,
     <<14, <<"Santa", " ", "Fe">>>>,
     <<15, <<"Taos">>>>,
     <<16, <<"Gallup">>>>,
     <<17, <<"Tulsa">>>>,
     <<18, <<"Oklahoma", " ", "City">>>>,
     <<19, <<"Tahlequah">>>>,
     <<20, <<"St.", " ", "Francisville">>>>,
     <<25, <<"Nashville">>>>,
     <<26, <<"Chattanooga">>>>,
     <<21, <<"Columbus">>>>,
     <<22, <<"Dayton">>>>,
     <<23, <<"Cincinnati">>>>,
     <<21, <<"Xenia">>>>,
     <<21, <<"Zanesville">>>>,
     <<27, <<"New", " ", "York">>>>,
     <<24, <<"Harrisburg">>>>,
     <<24, <<"Allentown">>>>,
     <<24, <<"Bethlehem">>>>,
     <<24, <<"Easton">>>> >>

VARIABLES
  finder,          \* which finder class runs: "efficient", "comprehensive", "hybrid"
  coordinates,     \* the coordinates handed to find_cities_*
  sampled_coords,  \* the sample the loop iterates over
  pc,              \* position of the run: "start", "loop", "done", "crashed", "idle"
  i,               \* 1-based index of the next sampled coordinate
  cities,          \* the local set cities of find_cities_*
  api_calls,       \* the local counter api_calls of find_cities_*
  cache,           \* self.cache: a function from cache keys to NoneVal or Str(text)
  disk,            \* the cache file: [exists, content], content the text in it
  steps,           \* observer: what each loop iteration did, in order
  earlier,         \* observer: the steps and the result of the run of the
                   \* process before this one, once there is one
  resolver,        \* one call of a cached resolver: arguments, cache and outcome
  offline,         \* one call of an offline finder: arguments and outcome
  reducer,         \* one call of the reducers: arguments and outcomes
  store,           \* the cache file and the processes that load and save it
  filter,          \* one call of is_likely_city: argument and outcome
  dedup,           \* one call of clean_city_list or of the route orderer
  final,           \* one run of final_cities_with_nyc.main: input and outcome
  pool             \* get_city_names of main.py: the executor and its workers

runVars == <<finder, coordinates, sampled_coords, pc, i, cities, api_calls,
             cache, disk, steps, earlier>>
vars == <<finder, coordinates, sampled_coords, pc, i, cities, api_calls,
          cache, disk, steps, earlier, resolver, offline, reducer, store, filter,
          dedup, final, pool>>
toolVars == <<store, filter, dedup, final, pool>>

----------------------------------------------------------------------------
(* Bounds of the model *)

MaxTrack == 2

MaxLen == 4

MaxSamples == 3

----------------------------------------------------------------------------
(* Coordinates and distances *)

Points == 1..Len(Coord)

PointAt(lat, lon) == CHOOSE p \in Points : Coord[p] = <<lat, lon>>

\* The track points: near the Albuquerque entry; on the Rancho Cucamonga /
\* Pomona / Victorville key; three points in the Texas panhandle, far from
\* every gazetteer entry, of which the first two share a cache key and the
\* third lies 1.1 km north; and a point between the Flagstaff and Kingman keys.
TrackPoints ==
  { PointAt(351000000, -1066200000), PointAt(341064000, -1175931000),
    PointAt(352000000, -1018000000), PointAt(352000003, -1018000003),
    PointAt(352100000, -1018000000), PointAt(351900000, -1116600000) }

calculate_distance(coord1, coord2) == DistCm[coord1][coord2]

\* "{x:.6f}" of a value given in 1e-7 degree: the value rounded to 1e-6 degree.
\* No coordinate of Coord ends in the digit 5, so no rounding tie arises, and
\* none rounds to zero, so the text "-0.000000" does not occur.
Format6(x) == IF x >= 0 THEN (x + 5) \div 10 ELSE -((5 - x) \div 10)

\* coord_key = f"{lat:.6f},{lon:.6f}", as the pair of the two formatted numbers
CoordKey(p) == <<Format6(Coord[p][1]), Format6(Coord[p][2])>>

----------------------------------------------------------------------------
(* Python values *)

NoneVal == [isNone |-> TRUE, text |-> <<>>]

Str(s) == [isNone |-> FALSE, text |-> s]

\* truth value of a str-or-None: None and '' are false
Truthy(v) == ~v.isNone /\ v.text # <<>>

Min(S) == CHOOSE x \in S : \A y \in S : x <= y

\* str.split(',')[0]
RECURSIVE split_first(_)
split_first(s) ==
  IF s = <<>> \/ Head(s) = "," THEN <<>> ELSE <<Head(s)>> \o split_first(Tail(s))

RECURSIVE lstrip(_)
lstrip(s) == IF s # <<>> /\ Head(s) = " " THEN lstrip(Tail(s)) ELSE s

RECURSIVE rstrip(_)
rstrip(s) ==
  IF s # <<>> /\ s[Len(s)] = " " THEN rstrip(SubSeq(s, 1, Len(s) - 1)) ELSE s

\* str.strip()
strip(s) == rstrip(lstrip(s))

\* cache[key] = value
Put(c, key, value) ==
  [k \in (DOMAIN c) \cup {key} |-> IF k = key THEN value ELSE c[k]]

EmptyCache == [k \in {} |-> NoneVal]

----------------------------------------------------------------------------
(* The external collaborator geolocator.reverse *)

AddressKinds == {"city", "town", "village", "hamlet", "municipality", "suburb"}

\* the text the collaborator reports under each component kind
AddressValue(kind) ==
  CASE kind = "city" -> <<"Amarillo">>
    [] kind = "town" -> <<"Bushland">>
    [] kind = "village" -> <<"Wildorado">>
    [] kind = "hamlet" -> <<"Soncy">>
    [] kind = "municipality" -> <<"Potter", " ", "County">>
    [] kind = "suburb" -> <<"San", " ", "Jacinto">>

DisplayNames ==
  { <<"Interstate", " ", "40", ",", " ", "Texas">>,
    <<" ", "Canyon", " ", "Road", " ", ",", "Texas">>,
    <<",", " ", "Texas">>,
    <<>> }

\* One behaviour of reverse(): it raises exc, or returns None (location
\* FALSE), or returns a Location whose raw mapping has an 'address' mapping
\* (hasAddress, with the component kinds in address) and/or a 'display_name'.
Response(exc, location, hasAddress, address, hasDisplay, display) ==
  [exc |-> exc, location |-> location, hasAddress |-> hasAddress,
   address |-> address, hasDisplay |-> hasDisplay, display |-> display]

Raises(exc) == Response(exc, FALSE, FALSE, {}, FALSE, <<>>)

ReturnsNone == Response("none", FALSE, FALSE, {}, FALSE, <<>>)

Responses ==
  { Raises("GeocoderTimedOut"), Raises("GeocoderServiceError"), ReturnsNone }
  \cup { Response("none", TRUE, TRUE, a, TRUE, <<"Interstate", " ", "40", ",", " ", "Texas">>) :
           a \in (SUBSET AddressKinds) \ {{}} }
  \cup { Response("none", TRUE, TRUE, {}, TRUE, d) : d \in DisplayNames }
  \cup { Response("none", TRUE, TRUE, {}, FALSE, <<>>) }
  \cup { Response("none", TRUE, FALSE, {}, TRUE, d) : d \in DisplayNames }
  \cup { Response("none", TRUE, FALSE, {}, FALSE, <<>>) }

\* the responses the find_cities_* runs draw from
RunResponses ==
  { Raises("GeocoderTimedOut"), Raises("GeocoderServiceError"), ReturnsNone,
    Response("none", TRUE, TRUE, {"city", "town"}, TRUE, <<"Interstate", " ", "40", ",", " ", "Texas">>),
    Response("none", TRUE, TRUE, {"town", "suburb"}, TRUE, <<"Interstate", " ", "40", ",", " ", "Texas">>),
    Response("none", TRUE, TRUE, {}, TRUE, <<",", " ", "Texas">>),
    Response("none", TRUE, FALSE, {}, TRUE, <<"Interstate", " ", "40", ",", " ", "Texas">>) }

----------------------------------------------------------------------------
(* The cached online resolver *)

\* An except clause that names only the timeout of the geocoder
CaughtByExcept_TimeoutOnly(exc) == exc = "GeocoderTimedOut"

\* `except Exception` catches every exception the try block can raise
CaughtByExcept(exc) == exc \in {"GeocoderTimedOut", "GeocoderServiceError", "KeyError"}

\* for key in keys: if key in address -> the first such key, "" when none
FirstPresent(keys, address) ==
  LET hits == {n \in 1..Len(keys) : keys[n] \in address}
  IN  IF hits = {} THEN "" ELSE keys[Min(hits)]

\* The try block: the exception it ends with ("none" if none), whether it
\* reached a `return city`, and the city it stored and returned.
TryBlock(resp, altKeys, useDisplay) ==
  IF resp.exc # "none"
    THEN [exc |-> resp.exc, returned |-> FALSE, city |-> NoneVal]
  ELSE IF ~resp.location
    THEN [exc |-> "none", returned |-> FALSE, city |-> NoneVal]
  ELSE IF ~resp.hasAddress
    THEN [exc |-> "KeyError", returned |-> FALSE, city |-> NoneVal]
  ELSE IF "city" \in resp.address
    THEN [exc |-> "none", returned |-> TRUE, city |-> Str(AddressValue("city"))]
  ELSE IF FirstPresent(altKeys, resp.address) # ""
    THEN [exc |-> "none", returned |-> TRUE,
          city |-> Str(AddressValue(FirstPresent(altKeys, resp.address)))]
  ELSE IF useDisplay
    THEN [exc |-> "none", returned |-> TRUE,
          city |-> Str(strip(split_first(IF resp.hasDisplay THEN resp.display ELSE <<>>)))]
  ELSE [exc |-> "none", returned |-> FALSE, city |-> NoneVal]

\* A resolver that skips the cache test and always asks the collaborator
CachedResolve_NoLookup(c, p, resp, altKeys, useDisplay) ==
  LET coord_key == CoordKey(p)
      t == TryBlock(resp, altKeys, useDisplay)
  IN  IF t.returned
        THEN [cache |-> Put(c, coord_key, t.city), result |-> t.city, reverse |-> TRUE,
              raised |-> FALSE, propagated |-> FALSE]
        ELSE [cache |-> Put(c, coord_key, NoneVal), result |-> NoneVal, reverse |-> TRUE,
              raised |-> resp.exc # "none", propagated |-> FALSE]

\* A resolver that does not record the failures in the cache
CachedResolve_NoNegativeCache(c, p, resp, altKeys, useDisplay) ==
  LET coord_key == CoordKey(p)
      t == TryBlock(resp, altKeys, useDisplay)
  IN  IF coord_key \in DOMAIN c
        THEN [cache |-> c, result |-> c[coord_key], reverse |-> FALSE,
              raised |-> FALSE, propagated |-> FALSE]
      ELSE IF t.returned
        THEN [cache |-> Put(c, coord_key, t.city), result |-> t.city, reverse |-> TRUE,
              raised |-> FALSE, propagated |-> FALSE]
      ELSE [cache |-> c, result |-> NoneVal, reverse |-> TRUE,
            raised |-> resp.exc # "none", propagated |-> FALSE]

\* The body shared by the three resolvers.  The outcome names the cache
\* afterwards, the value returned, whether reverse() was called, whether that
\* call raised, and whether an exception left the resolver.
CachedResolve(c, p, resp, altKeys, useDisplay) ==
  LET coord_key == CoordKey(p)
      t == TryBlock(resp, altKeys, useDisplay)
  IN  IF coord_key \in DOMAIN c
        THEN [cache |-> c, result |-> c[coord_key], reverse |-> FALSE,
              raised |-> FALSE, propagated |-> FALSE]
      ELSE IF t.exc # "none" /\ ~CaughtByExcept(t.exc)
        THEN [cache |-> c, result |-> NoneVal, reverse |-> TRUE,
              raised |-> resp.exc # "none", propagated |-> TRUE]
      ELSE IF t.returned
        THEN [cache |-> Put(c, coord_key, t.city), result |-> t.city, reverse |-> TRUE,
              raised |-> FALSE, propagated |-> FALSE]
      ELSE [cache |-> Put(c, coord_key, NoneVal), result |-> NoneVal, reverse |-> TRUE,
            raised |-> resp.exc # "none", propagated |-> FALSE]

Efficient_get_city_from_coordinate(c, p, resp) ==
  CachedResolve(c, p, resp, <<"town", "village", "hamlet", "municipality">>, TRUE)

Comprehensive_get_city_from_coordinate(c, p, resp) ==
  CachedResolve(c, p, resp, <<"town", "village", "hamlet", "municipality", "suburb">>, TRUE)

Hybrid_get_city_from_api(c, p, resp) ==
  CachedResolve(c, p, resp, <<>>, FALSE)

----------------------------------------------------------------------------
(* The reducers *)

\* cluster_radius_km=2.0 of smart_sampling, in centimetres
SmartSamplingClusterRadius == 200000
DefaultClusterRadius == 500000

\* an inner loop that looks at the next coordinate only
Claimed_Adjacent(coords, idx, used, cluster_radius_km) ==
  {j \in (idx + 1)..Min({idx + 1, Len(coords)}) :
     j \notin used /\ calculate_distance(coords[idx], coords[j]) <= cluster_radius_km}

\* The inner loop of cluster_coordinates: the indices j > i, not yet used,
\* whose coordinate lies within cluster_radius_km of coordinates[i].
Claimed(coords, idx, used, cluster_radius_km) ==
  {j \in (idx + 1)..Len(coords) :
     j \notin used /\ calculate_distance(coords[idx], coords[j]) <= cluster_radius_km}

RECURSIVE ClusterLoop(_, _, _, _, _)
ClusterLoop(coords, idx, used, clusters, cluster_radius_km) ==
  IF idx > Len(coords) THEN clusters
  ELSE IF idx \in used
    THEN ClusterLoop(coords, idx + 1, used, clusters, cluster_radius_km)
  ELSE ClusterLoop(coords, idx + 1,
                   used \cup {idx} \cup Claimed(coords, idx, used, cluster_radius_km),
                   Append(clusters, coords[idx]), cluster_radius_km)

cluster_coordinates(coords, cluster_radius_km) ==
  IF coords = <<>> THEN <<>> ELSE ClusterLoop(coords, 1, {}, <<>>, cluster_radius_km)

\* min(calculate_distance(coord, selected) for selected in sampled)
MinDistanceToSampled(coord, sampled) ==
  Min({calculate_distance(coord, sampled[k]) : k \in 1..Len(sampled)})

\* a scan that takes the first index not yet used
BestIndex_FirstUnused(clustered, sampled, used) ==
  LET cand == {n \in 1..Len(clustered) : n \notin used}
  IN  IF cand = {} THEN 0 ELSE Min(cand)

\* a scan that replaces the best candidate by one as far (>= for >)
BestIndex_LastOnTies(clustered, sampled, used) ==
  LET cand == {n \in 1..Len(clustered) : n \notin used}
      far(n) == MinDistanceToSampled(clustered[n], sampled)
  IN  IF cand = {} THEN 0
      ELSE CHOOSE n \in cand : /\ \A m \in cand : far(m) <= far(n)
                               /\ \A m \in cand : far(m) = far(n) => m <= n

\* The for loop of the greedy stage: best_index after the scan, 0 for None.
\* A candidate replaces the best one only when strictly farther, and the
\* first best_distance is 0.
BestIndex(clustered, sampled, used) ==
  LET cand == {n \in 1..Len(clustered) :
                 n \notin used /\ MinDistanceToSampled(clustered[n], sampled) > 0}
      far(n) == MinDistanceToSampled(clustered[n], sampled)
  IN  IF cand = {} THEN 0
      ELSE Min({n \in cand : \A m \in cand : far(m) <= far(n)})

\* The while loop of the greedy stage
RECURSIVE GreedyLoop(_, _, _, _)
GreedyLoop(clustered, sampled, used, max_samples) ==
  IF Len(sampled) < max_samples /\ Cardinality(used) < Len(clustered)
    THEN LET best_index == BestIndex(clustered, sampled, used)
         IN  IF best_index # 0
               THEN GreedyLoop(clustered, Append(sampled, clustered[best_index]),
                               used \cup {best_index}, max_samples)
               ELSE sampled
    ELSE sampled

\* A greedy stage seeded with the first clustered coordinate only
FarthestPointStage_FirstOnly(clustered, max_samples) ==
  GreedyLoop(clustered, <<clustered[1]>>, {1}, max_samples)

\* The farthest-point stage of smart_sampling: seeded with the first and the
\* last clustered coordinate
FarthestPointStage(clustered, max_samples) ==
  GreedyLoop(clustered, <<clustered[1], clustered[Len(clustered)]>>,
             {1, Len(clustered)}, max_samples)

\* EfficientCityFinder.smart_sampling; stage names the return statement taken
smart_sampling(coords, max_samples) ==
  LET clustered == cluster_coordinates(coords, SmartSamplingClusterRadius)
  IN  IF Len(coords) <= max_samples
        THEN [stage |-> "unchanged", clustered |-> <<>>, sampled |-> coords]
      ELSE IF Len(clustered) <= max_samples
        THEN [stage |-> "clustered", clustered |-> clustered, sampled |-> clustered]
      ELSE [stage |-> "farthest", clustered |-> clustered,
            sampled |-> FarthestPointStage(clustered, max_samples)]

\* seq[::step] for step >= 1
Stride(seq, step) ==
  IF seq = <<>> THEN <<>>
  ELSE [k \in 1..(((Len(seq) - 1) \div step) + 1) |-> seq[(k - 1) * step + 1]]

Contains(seq, x) == \E k \in 1..Len(seq) : seq[k] = x

Max(a, b) == IF a >= b THEN a ELSE b

\* HybridCityFinder.smart_sample_coordinates; raised: ZeroDivisionError of
\* len(coordinates) // max_samples
smart_sample_coordinates(coords, max_samples) ==
  IF Len(coords) <= max_samples
    THEN [raised |-> FALSE, sampled |-> coords]
  ELSE IF max_samples = 0
    THEN [raised |-> TRUE, sampled |-> <<>>]
  ELSE LET step == Len(coords) \div max_samples
           strided == Stride(coords, Max(1, step))
           withFirst == IF Contains(strided, coords[1]) THEN strided
                        ELSE <<coords[1]>> \o strided
           withLast == IF Contains(withFirst, coords[Len(coords)]) THEN withFirst
                       ELSE Append(withFirst, coords[Len(coords)])
       IN  [raised |-> FALSE, sampled |-> withLast]

\* segment_route_geographically with every segment, the last one too, of
\* segment_size coordinates
segment_route_geographically_EqualSizes(coords, num_segments) ==
  IF Len(coords) <= num_segments
    THEN [k \in 1..Len(coords) |-> <<coords[k]>>]
  ELSE LET segment_size == Len(coords) \div num_segments
       IN  [k \in 1..num_segments |->
              SubSeq(coords, (k - 1) * segment_size + 1, k * segment_size)]

\* ComprehensiveCityFinder.segment_route_geographically
segment_route_geographically(coords, num_segments) ==
  IF Len(coords) <= num_segments
    THEN [k \in 1..Len(coords) |-> <<coords[k]>>]
  ELSE LET segment_size == Len(coords) \div num_segments
           segment(k) == SubSeq(coords, (k - 1) * segment_size + 1,
                                IF k = num_segments THEN Len(coords) ELSE k * segment_size)
           nonEmpty == {k \in 1..num_segments : segment(k) # <<>>}
           nth(n) == CHOOSE k \in nonEmpty : Cardinality({m \in nonEmpty : m < k}) = n - 1
       IN  [n \in 1..Cardinality(nonEmpty) |-> segment(nth(n))]

RECURSIVE Concat(_)
Concat(seqs) == IF seqs = <<>> THEN <<>> ELSE Head(seqs) \o Concat(Tail(seqs))

\* ComprehensiveCityFinder.sample_from_segments
sample_from_segments(segments, samples_per_segment) ==
  Concat([n \in 1..Len(segments) |->
            IF Len(segments[n]) <= samples_per_segment THEN segments[n]
            ELSE Stride(segments[n], Max(1, Len(segments[n]) \div samples_per_segment))])

----------------------------------------------------------------------------
(* The offline tier *)

\* The dict a display {k1: v1, k2: v2, ...} builds, as its items in iteration
\* order: a key takes the position of its first occurrence and the value of
\* its last one.
DictDisplay(literal) ==
  LET firsts == {n \in 1..Len(literal) : \A m \in 1..(n - 1) : literal[m][1] # literal[n][1]}
      nth(k) == CHOOSE n \in firsts : Cardinality({m \in firsts : m < n}) = k - 1
      lastOf(key) == CHOOSE n \in 1..Len(literal) :
                       /\ literal[n][1] = key
                       /\ \A m \in (n + 1)..Len(literal) : literal[m][1] # key
  IN  [k \in 1..Cardinality(firsts) |->
         <<literal[nth(k)][1], literal[lastOf(literal[nth(k)][1])][2]>>]

\* self.major_cities of HybridCityFinder
hybrid_major_cities == DictDisplay(hybrid_major_cities_literal)

\* self.major_cities of OfflineCityFinder
offline_major_cities == DictDisplay(offline_major_cities_literal)

\* float('inf')
Infinity == -1

\* A scan that excludes an entry exactly max_distance_km away
RECURSIVE NearestScan_Exclusive(_, _, _, _, _, _)
NearestScan_Exclusive(major_cities, n, p, max_distance_km, min_distance, nearest_city) ==
  IF n > Len(major_cities) THEN nearest_city
  ELSE LET distance == calculate_distance(p, major_cities[n][1])
       IN  IF (min_distance = Infinity \/ distance < min_distance)
              /\ distance < max_distance_km
             THEN NearestScan_Exclusive(major_cities, n + 1, p, max_distance_km,
                                        distance, Str(major_cities[n][2]))
             ELSE NearestScan_Exclusive(major_cities, n + 1, p, max_distance_km,
                                        min_distance, nearest_city)

\* The scan of find_nearest_city / find_nearest_major_city over the keys of
\* major_cities in iteration order
RECURSIVE NearestScan(_, _, _, _, _, _)
NearestScan(major_cities, n, p, max_distance_km, min_distance, nearest_city) ==
  IF n > Len(major_cities) THEN nearest_city
  ELSE LET distance == calculate_distance(p, major_cities[n][1])
       IN  IF (min_distance = Infinity \/ distance < min_distance)
              /\ distance <= max_distance_km
             THEN NearestScan(major_cities, n + 1, p, max_distance_km,
                              distance, Str(major_cities[n][2]))
             ELSE NearestScan(major_cities, n + 1, p, max_distance_km,
                              min_distance, nearest_city)

\* HybridCityFinder.find_nearest_major_city
find_nearest_major_city(p, max_distance_km) ==
  NearestScan(hybrid_major_cities, 1, p, max_distance_km, Infinity, NoneVal)

\* OfflineCityFinder.find_nearest_city
find_nearest_city(p, max_distance_km) ==
  NearestScan(offline_major_cities, 1, p, max_distance_km, Infinity, NoneVal)

----------------------------------------------------------------------------
(* The cache file *)

\* The text json.dump writes, as the sequence of the chunks it is made of:
\* the opening brace, one member per key of the mapping, the closing brace.
\* A key is the pair CoordKey stands for; the value of a member is JSON text,
\* a sequence of tokens.
Chunk(kind, key, value) == [kind |-> kind, key |-> key, value |-> value]

OpenBrace == Chunk("{", <<0, 0>>, <<>>)

CloseBrace == Chunk("}", <<0, 0>>, <<>>)

json_encode_Bare(v) == IF v.isNone THEN <<"null">> ELSE v.text

\* the JSON text of a cached value: null for None, the quoted text for a str
json_encode(v) == IF v.isNone THEN <<"null">> ELSE <<"\"">> \o v.text \o <<"\"">>

\* the value a JSON text stands for
json_decode(t) == IF t = <<"null">> THEN NoneVal ELSE Str(SubSeq(t, 2, Len(t) - 1))

\* the members of a mapping, one chunk each.  A dict is written in insertion
\* order; the cache of the model does not record it, and its keys are
\* written in increasing order.
RECURSIVE Members(_, _)
Members(c, keys) ==
  IF keys = {} THEN <<>>
  ELSE LET KeyBefore(a, b) == a[1] < b[1] \/ (a[1] = b[1] /\ a[2] < b[2])
           k == CHOOSE x \in keys : \A y \in keys : x = y \/ KeyBefore(x, y)
       IN  <<Chunk("member", k, json_encode(c[k]))>> \o Members(c, keys \ {k})

\* json.dump(self.cache, f, indent=2): the whole text
json_dump(c) == <<OpenBrace>> \o Members(c, DOMAIN c) \o <<CloseBrace>>

\* a complete JSON object: both braces and members between them
WellFormed(text) ==
  /\ Len(text) >= 2
  /\ text[1] = OpenBrace
  /\ text[Len(text)] = CloseBrace
  /\ \A k \in 2..(Len(text) - 1) : text[k].kind = "member"

\* json.load(f): the mapping of a complete text (the last member of a key
\* gives its value), JSONDecodeError for any other text
json_load(text) ==
  IF ~WellFormed(text) THEN [raised |-> TRUE, value |-> EmptyCache]
  ELSE LET at == 2..(Len(text) - 1)
           last(key) == CHOOSE k \in at :
                          /\ text[k].key = key
                          /\ \A j \in at : text[j].key = key => j <= k
       IN  [raised |-> FALSE,
            value |-> [key \in {text[k].key : k \in at} |->
                         json_decode(text[last(key)].value)]]

NoFile == [exists |-> FALSE, content |-> <<>>]

File(content) == [exists |-> TRUE, content |-> content]

\* load_cache: json.load of the file when os.path.exists, {} when there is
\* no file; what json.load raises is not caught
load_cache(d) ==
  IF d.exists THEN json_load(d.content) ELSE [raised |-> FALSE, value |-> EmptyCache]

\* save_cache carried out to its end: the file holds the text of the
\* in-memory mapping
save_cache(c) == File(json_dump(c))

\* the cache files a run can find: none, or the file of an earlier run
InitialDisks ==
  { NoFile,
    save_cache(Put(EmptyCache, CoordKey(PointAt(352000000, -1018000000)), Str(<<"Amarillo">>))),
    save_cache(Put(EmptyCache, CoordKey(PointAt(352100000, -1018000000)), NoneVal)) }

----------------------------------------------------------------------------
(* The find_cities_* runs *)

Finders == {"efficient", "comprehensive", "hybrid"}

\* the coordinates of the runs
RunPoints ==
  { PointAt(351000000, -1066200000), PointAt(352000000, -1018000000),
    PointAt(352000003, -1018000003), PointAt(352100000, -1018000000) }

SeqsUpTo(S, n) == UNION {[1..m -> S] : m \in 0..n}

\* max_samples=150 of find_cities_efficiently
EfficientMaxSamples == 150

\* max_samples=80 of find_cities_hybrid
HybridMaxSamples == 80

\* num_segments=25 of find_cities_comprehensive
ComprehensiveNumSegments == 25

\* samples_per_segment=8 of find_cities_comprehensive
ComprehensiveSamplesPerSegment == 8

\* max_distance_km=25.0 of find_cities_hybrid, in centimetres
HybridMaxDistance == 2500000

\* api_calls % 10 of find_cities_efficiently
EfficientSavePeriod == 10

\* api_calls % 20 of find_cities_comprehensive
ComprehensiveSavePeriod == 20

\* api_calls % 5 of find_cities_hybrid
HybridSavePeriod == 5

\* no process has run before this one
NoEarlierRun == [done |-> FALSE, steps |-> <<>>, cities |-> {}]

RunInit ==
  /\ finder \in Finders
  /\ coordinates \in SeqsUpTo(RunPoints, MaxTrack)
  /\ disk \in InitialDisks
  /\ cache = load_cache(disk).value
  /\ sampled_coords = <<>>
  /\ pc = "start"
  /\ i = 1
  /\ cities = {}
  /\ api_calls = 0
  /\ steps = <<>>
  /\ earlier = NoEarlierRun

\* The sampling at the top of find_cities_efficiently, find_cities_comprehensive
\* and find_cities_hybrid
Sample ==
  /\ pc = "start"
  /\ sampled_coords' =
       CASE finder = "efficient" -> smart_sampling(coordinates, EfficientMaxSamples).sampled
         [] finder = "comprehensive" ->
              sample_from_segments(
                segment_route_geographically(coordinates, ComprehensiveNumSegments),
                ComprehensiveSamplesPerSegment)
         [] finder = "hybrid" ->
              smart_sample_coordinates(coordinates, HybridMaxSamples).sampled
  /\ pc' = "loop"
  /\ UNCHANGED <<finder, coordinates, i, cities, api_calls, cache, disk, steps,
                 earlier, resolver, offline, reducer, toolVars>>

\* What one loop iteration did: the tier that answered, the coordinate, the
\* value obtained, whether the offline tier was consulted, whether the cache
\* was looked up, whether reverse() was called and whether that call raised.
StepRecord(tier, p, result, consulted, lookup, reverse, raised) ==
  [tier |-> tier, p |-> p, result |-> result, consulted |-> consulted,
   lookup |-> lookup, reverse |-> reverse, raised |-> raised]

\* One iteration of a loop through the online resolver: the resolver call r,
\* cities.add, the counter and the periodic save_cache.  An exception that
\* leaves the resolver ends the run.
OnlineIteration(r, period, consulted) ==
  /\ steps' = Append(steps, StepRecord("online", sampled_coords[i], r.result,
                                       consulted, TRUE, r.reverse, r.raised))
  /\ IF r.propagated
       THEN /\ pc' = "crashed"
            /\ UNCHANGED <<i, cities, api_calls, cache, disk>>
       ELSE /\ cache' = r.cache
            /\ cities' = IF Truthy(r.result) THEN cities \cup {r.result.text} ELSE cities
            /\ api_calls' = api_calls + 1
            /\ disk' = IF (api_calls + 1) % period = 0 THEN save_cache(r.cache) ELSE disk
            /\ i' = i + 1
            /\ pc' = pc

\* One iteration of the loop of find_cities_efficiently
EfficientIteration(resp) ==
  /\ pc = "loop" /\ finder = "efficient" /\ i <= Len(sampled_coords)
  /\ OnlineIteration(Efficient_get_city_from_coordinate(cache, sampled_coords[i], resp),
                     EfficientSavePeriod, FALSE)
  /\ UNCHANGED <<finder, coordinates, sampled_coords, earlier, resolver, offline,
                 reducer, toolVars>>

\* One iteration of the loop of find_cities_comprehensive
ComprehensiveIteration(resp) ==
  /\ pc = "loop" /\ finder = "comprehensive" /\ i <= Len(sampled_coords)
  /\ OnlineIteration(Comprehensive_get_city_from_coordinate(cache, sampled_coords[i], resp),
                     ComprehensiveSavePeriod, FALSE)
  /\ UNCHANGED <<finder, coordinates, sampled_coords, earlier, resolver, offline,
                 reducer, toolVars>>

\* A hybrid loop that sends every coordinate to the API
HybridIteration_ApiAlways(resp) ==
  /\ pc = "loop" /\ finder = "hybrid" /\ i <= Len(sampled_coords)
  /\ OnlineIteration(Hybrid_get_city_from_api(cache, sampled_coords[i], resp),
                     HybridSavePeriod, FALSE)
  /\ UNCHANGED <<finder, coordinates, sampled_coords, earlier, resolver, offline,
                 reducer, toolVars>>

\* One iteration of the loop of find_cities_hybrid: the offline tier first,
\* the cached API call only when it found nothing
HybridIteration(resp) ==
  /\ pc = "loop" /\ finder = "hybrid" /\ i <= Len(sampled_coords)
  /\ LET city == find_nearest_major_city(sampled_coords[i], HybridMaxDistance)
     IN  IF Truthy(city)
           THEN /\ cities' = cities \cup {city.text}
                /\ i' = i + 1
                /\ steps' = Append(steps, StepRecord("offline", sampled_coords[i], city,
                                                     TRUE, FALSE, FALSE, FALSE))
                /\ UNCHANGED <<pc, api_calls, cache, disk>>
           ELSE OnlineIteration(Hybrid_get_city_from_api(cache, sampled_coords[i], resp),
                                HybridSavePeriod, TRUE)
  /\ UNCHANGED <<finder, coordinates, sampled_coords, earlier, resolver, offline,
                 reducer, toolVars>>

\* A loop that returns without the final save_cache
Finish_NoSave ==
  /\ pc = "loop" /\ i > Len(sampled_coords)
  /\ pc' = "done"
  /\ UNCHANGED <<finder, coordinates, sampled_coords, i, cities, api_calls, cache,
                 disk, steps, earlier, resolver, offline, reducer, toolVars>>

\* The end of the loop: the final save_cache and the return
Finish ==
  /\ pc = "loop" /\ i > Len(sampled_coords)
  /\ disk' = save_cache(cache)
  /\ pc' = "done"
  /\ UNCHANGED <<finder, coordinates, sampled_coords, i, cities, api_calls, cache,
                 steps, earlier, resolver, offline, reducer, toolVars>>

\* After a run that returned, the same finder is constructed in a fresh
\* process, which loads the cache from the file, and is run on the same
\* track
Rerun ==
  /\ pc = "done" /\ ~earlier.done
  /\ earlier' = [done |-> TRUE, steps |-> steps, cities |-> cities]
  /\ cache' = load_cache(disk).value
  /\ sampled_coords' = <<>>
  /\ pc' = "start"
  /\ i' = 1
  /\ cities' = {}
  /\ api_calls' = 0
  /\ steps' = <<>>
  /\ UNCHANGED <<finder, coordinates, disk, resolver, offline, reducer, toolVars>>

RunIdle ==
  /\ finder = "none" /\ coordinates = <<>> /\ sampled_coords = <<>> /\ pc = "idle"
  /\ i = 1 /\ cities = {} /\ api_calls = 0 /\ cache = EmptyCache /\ disk = NoFile
  /\ steps = <<>> /\ earlier = NoEarlierRun

ResolverIdle == resolver = [phase |-> "idle"]

OfflineIdle == offline = [phase |-> "idle"]

ReducerIdle == reducer = [phase |-> "idle"]

\* the operation of the variable is not called
Idle(v) == v = [phase |-> "idle"]

ToolsIdle == Idle(store) /\ Idle(filter) /\ Idle(dedup) /\ Idle(final) /\ Idle(pool)

Init == RunInit /\ ResolverIdle /\ OfflineIdle /\ ReducerIdle /\ ToolsIdle

Next ==
  \/ Sample
  \/ \E resp \in RunResponses : EfficientIteration(resp)
  \/ \E resp \in RunResponses : ComprehensiveIteration(resp)
  \/ \E resp \in RunResponses : HybridIteration(resp)
  \/ Finish
  \/ Rerun

\* A run of find_cities_efficiently, find_cities_comprehensive or
\* find_cities_hybrid over a track
Spec == Init /\ [][Next]_vars

----------------------------------------------------------------------------
(* Calls of one cached resolver on one coordinate *)

MaxCalls == 2

ResolverPoints == {PointAt(352000000, -1018000000), PointAt(352100000, -1018000000)}

ResolverInit ==
  resolver \in {[phase |-> "ready", finder |-> f, p |-> p, cache |-> load_cache(d).value,
                 calls |-> <<>>] : f \in Finders, p \in ResolverPoints, d \in InitialDisks}

\* A call with collaborator behaviour resp: the record of the call keeps the
\* cache it found, the behaviour and the outcome
ResolverCall(resp, out) ==
  resolver' = [resolver EXCEPT
                 !.cache = out.cache,
                 !.calls = Append(@, [before |-> resolver.cache, resp |-> resp, out |-> out])]

CallResponses == IF resolver.calls = <<>> THEN Responses ELSE RunResponses

CallEfficient ==
  /\ resolver.finder = "efficient" /\ Len(resolver.calls) < MaxCalls
  /\ \E resp \in CallResponses :
       ResolverCall(resp, Efficient_get_city_from_coordinate(resolver.cache, resolver.p, resp))
  /\ UNCHANGED <<runVars, offline, reducer, toolVars>>

CallComprehensive ==
  /\ resolver.finder = "comprehensive" /\ Len(resolver.calls) < MaxCalls
  /\ \E resp \in CallResponses :
       ResolverCall(resp, Comprehensive_get_city_from_coordinate(resolver.cache, resolver.p, resp))
  /\ UNCHANGED <<runVars, offline, reducer, toolVars>>

CallHybrid ==
  /\ resolver.finder = "hybrid" /\ Len(resolver.calls) < MaxCalls
  /\ \E resp \in CallResponses :
       ResolverCall(resp, Hybrid_get_city_from_api(resolver.cache, resolver.p, resp))
  /\ UNCHANGED <<runVars, offline, reducer, toolVars>>

ResolverNext == CallEfficient \/ CallComprehensive \/ CallHybrid

InitResolver == RunIdle /\ ResolverInit /\ OfflineIdle /\ ReducerIdle /\ ToolsIdle

SpecResolver == InitResolver /\ [][ResolverNext]_vars

----------------------------------------------------------------------------
(* Calls of the offline finders *)

\* the values of max_distance_km: 0, the distance from the track point near
\* Albuquerque to the Albuquerque key, and the 25, 30 and 50 km of the code
Thresholds ==
  { 0,
    calculate_distance(PointAt(351000000, -1066200000), PointAt(350844000, -1066504000)),
    HybridMaxDistance, 3000000, 5000000 }

OfflineInit == offline = [phase |-> "ready", cities |-> {}]

\* A call, followed by the caller's `if city: cities.add(city)`
OfflineCall(finderName, p, max_distance_km, city) ==
  offline' = [phase |-> "called", finder |-> finderName, p |-> p,
              max_distance_km |-> max_distance_km, city |-> city,
              cities |-> IF Truthy(city) THEN offline.cities \cup {city.text}
                         ELSE offline.cities]

CallFindNearestMajorCity ==
  /\ offline.phase \in {"ready", "called"}
  /\ \E p \in TrackPoints, max_distance_km \in Thresholds :
       OfflineCall("hybrid", p, max_distance_km, find_nearest_major_city(p, max_distance_km))
  /\ UNCHANGED <<runVars, resolver, reducer, toolVars>>

CallFindNearestCity ==
  /\ offline.phase \in {"ready", "called"}
  /\ \E p \in TrackPoints, max_distance_km \in Thresholds :
       OfflineCall("offline", p, max_distance_km, find_nearest_city(p, max_distance_km))
  /\ UNCHANGED <<runVars, resolver, reducer, toolVars>>

OfflineNext == CallFindNearestMajorCity \/ CallFindNearestCity

InitOffline == RunIdle /\ ResolverIdle /\ OfflineInit /\ ReducerIdle /\ ToolsIdle

SpecOffline == InitOffline /\ [][OfflineNext]_vars

----------------------------------------------------------------------------
(* Calls of the reducers *)

\* The coordinates are track points, or are among the first track point,
\* the two points 0.03 degrees east and west of it at the same latitude,
\* which are at the same distance from it, and a point of the panhandle.
ReducerInit ==
  LET TiedPoints == {PointAt(351000000, -1066200000), PointAt(351000000, -1065900000),
                     PointAt(351000000, -1066500000), PointAt(352000000, -1018000000)}
  IN  reducer \in {[phase |-> "args", coordinates |-> c, max_samples |-> m] :
                     c \in SeqsUpTo(TrackPoints, MaxLen) \cup SeqsUpTo(TiedPoints, MaxLen),
                     m \in 0..MaxSamples}

CallSmartSampling ==
  /\ reducer.phase = "args"
  /\ reducer' = [phase |-> "smart_sampling", coordinates |-> reducer.coordinates,
                 max_samples |-> reducer.max_samples,
                 out |-> smart_sampling(reducer.coordinates, reducer.max_samples)]
  /\ UNCHANGED <<runVars, resolver, offline, toolVars>>

CallSmartSampleCoordinates ==
  /\ reducer.phase = "args"
  /\ reducer' = [phase |-> "smart_sample_coordinates", coordinates |-> reducer.coordinates,
                 max_samples |-> reducer.max_samples,
                 out |-> smart_sample_coordinates(reducer.coordinates, reducer.max_samples)]
  /\ UNCHANGED <<runVars, resolver, offline, toolVars>>

\* cluster_coordinates called on its own, with the radius smart_sampling
\* passes or with the default of its signature
CallClusterCoordinates ==
  /\ reducer.phase = "args"
  /\ \E r \in {SmartSamplingClusterRadius, DefaultClusterRadius} :
       reducer' = [phase |-> "cluster_coordinates", coordinates |-> reducer.coordinates,
                   max_samples |-> reducer.max_samples, cluster_radius_km |-> r,
                   out |-> [sampled |-> cluster_coordinates(reducer.coordinates, r)]]
  /\ UNCHANGED <<runVars, resolver, offline, toolVars>>

\* segment_route_geographically called with one to MaxSamples segments
CallSegmentRouteGeographically ==
  /\ reducer.phase = "args"
  /\ \E num_segments \in 1..MaxSamples :
       reducer' = [phase |-> "segment_route_geographically",
                   coordinates |-> reducer.coordinates, max_samples |-> reducer.max_samples,
                   num_segments |-> num_segments,
                   out |-> [segments |-> segment_route_geographically(reducer.coordinates,
                                                                      num_segments)]]
  /\ UNCHANGED <<runVars, resolver, offline, toolVars>>

\* the first two steps of find_cities_comprehensive: the segments of the
\* coordinates, then the sample of the segments
CallSampleFromSegments ==
  /\ reducer.phase = "args"
  /\ \E num_segments \in 1..MaxSamples, samples_per_segment \in 1..MaxSamples :
       LET segments == segment_route_geographically(reducer.coordinates, num_segments)
       IN  reducer' = [phase |-> "sample_from_segments",
                       coordinates |-> reducer.coordinates,
                       max_samples |-> reducer.max_samples,
                       num_segments |-> num_segments,
                       samples_per_segment |-> samples_per_segment,
                       out |-> [segments |-> segments,
                                sampled |-> sample_from_segments(segments,
                                                                 samples_per_segment)]]
  /\ UNCHANGED <<runVars, resolver, offline, toolVars>>

ReducerNext ==
  \/ CallSmartSampling \/ CallSmartSampleCoordinates \/ CallClusterCoordinates
  \/ CallSegmentRouteGeographically \/ CallSampleFromSegments

InitReducer == RunIdle /\ ResolverIdle /\ OfflineIdle /\ ReducerInit /\ ToolsIdle

SpecReducer == InitReducer /\ [][ReducerNext]_vars

----------------------------------------------------------------------------
(* The name filter: src/clean_city_results.py *)

\* A name is a sequence of characters, each a string of length one.

Digits == {"0", "1", "2", "3", "4", "5", "6", "7", "8", "9"}

\* the characters \s matches
Whitespace == {" ", "\t", "\n", "\r", "\f"}

\* str.lower() of one character
Lower(c) ==
  LET UpperCase ==
        <<"A", "B", "C", "D", "E", "F", "G", "H", "I", "J", "K", "L", "M", "N", "O", "P", "Q", "R", "S", "T", "U", "V", "W", "X", "Y", "Z">>
      LowerCase ==
        <<"a", "b", "c", "d", "e", "f", "g", "h", "i", "j", "k", "l", "m", "n", "o", "p", "q", "r", "s", "t", "u", "v", "w", "x", "y", "z">>
  IN  IF \E n \in 1..Len(UpperCase) : UpperCase[n] = c
        THEN LowerCase[CHOOSE n \in 1..Len(UpperCase) : UpperCase[n] = c]
        ELSE c

\* the character classes of the patterns: \d, \s and the dot
InClass(c, cls) ==
  CASE cls = "d" -> c \in Digits
    [] cls = "s" -> c \in Whitespace
    [] cls = "." -> c # "\n"

\* the length of the longest run of characters of a class from pos on
RECURSIVE RunLength(_, _, _)
RunLength(name, pos, cls) ==
  IF pos <= Len(name) /\ InClass(name[pos], cls)
    THEN 1 + RunLength(name, pos + 1, cls)
    ELSE 0

\* the characters of a pattern stand at pos, letter case ignored or not
LiteralAt(chars, name, pos, ignorecase) ==
  /\ pos + Len(chars) - 1 <= Len(name)
  /\ \A j \in 1..Len(chars) :
       IF ignorecase THEN Lower(name[pos + j - 1]) = Lower(chars[j])
                     ELSE name[pos + j - 1] = chars[j]

\* A pattern is the sequence of its elements: <<"^", _>> and <<"$", _>> the
\* anchors, <<"lit", chars>> a run of literal characters, <<"+", cls>> and
\* <<"*", cls>> one-or-more and zero-or-more characters of a class.
\* The elements of pat from the k-th on match name from pos on.
RECURSIVE MatchFrom(_, _, _, _, _)
MatchFrom(pat, k, name, pos, ignorecase) ==
  IF k > Len(pat) THEN TRUE
  ELSE LET kind == pat[k][1]
           arg == pat[k][2]
       IN  CASE kind = "^" -> pos = 1 /\ MatchFrom(pat, k + 1, name, pos, ignorecase)
             [] kind = "$" ->
                  /\ \/ pos = Len(name) + 1
                     \/ pos = Len(name) /\ name[pos] = "\n"
                  /\ MatchFrom(pat, k + 1, name, pos, ignorecase)
             [] kind = "lit" ->
                  /\ LiteralAt(arg, name, pos, ignorecase)
                  /\ MatchFrom(pat, k + 1, name, pos + Len(arg), ignorecase)
             [] kind = "+" ->
                  \E n \in 1..RunLength(name, pos, arg[1]) :
                    MatchFrom(pat, k + 1, name, pos + n, ignorecase)
             [] kind = "*" ->
                  \E n \in 0..RunLength(name, pos, arg[1]) :
                    MatchFrom(pat, k + 1, name, pos + n, ignorecase)

\* re.match(pattern, name): a match at the start of the name
re_match(pat, name, ignorecase) == MatchFrom(pat, 1, name, 1, ignorecase)

re_search_AtStart(pat, name, ignorecase) == MatchFrom(pat, 1, name, 1, ignorecase)

\* re.search(pattern, name): a match anywhere in the name
re_search(pat, name, ignorecase) ==
  \E pos \in 1..(Len(name) + 1) : MatchFrom(pat, 1, name, pos, ignorecase)

\* str.isdigit()
isdigit(name) == name # <<>> /\ \A j \in 1..Len(name) : name[j] \in Digits

\* the list non_city_patterns of is_likely_city, in its order
non_city_patterns ==
  << <<<<"^", <<>>>>, <<"+", <<"d">>>>, <<"$", <<>>>>>>,
     <<<<"^", <<>>>>, <<"+", <<"d">>>>, <<"*", <<"s">>>>, <<"$", <<>>>>>>,
     <<<<"lit", <<"H", "i", "g", "h", "w", "a", "y">>>>>>,
     <<<<"lit", <<"R", "o", "a", "d">>>>>>,
     <<<<"lit", <<"T", "r", "a", "i", "l">>>>>>,
     <<<<"lit", <<"E", "x", "p", "r", "e", "s", "s", "w", "a", "y">>>>>>,
     <<<<"lit", <<"D", "i", "v", "i", "s", "i", "o", "n">>>>>>,
     <<<<"^", <<>>>>, <<"lit", <<"U", "S">>>>, <<"+", <<"s">>>>, <<"+", <<"d">>>>>>,
     <<<<"^", <<>>>>, <<"lit", <<"S", "R">>>>, <<"+", <<"s">>>>, <<"+", <<"d">>>>>>,
     <<<<"^", <<>>>>, <<"lit", <<"F", "M">>>>, <<"+", <<"s">>>>, <<"+", <<"d">>>>>>,
     <<<<"^", <<>>>>, <<"lit", <<"I">>>>, <<"+", <<"s">>>>, <<"+", <<"d">>>>>>,
     <<<<"^", <<>>>>, <<"lit", <<"N", "M">>>>, <<"+", <<"s">>>>, <<"+", <<"d">>>>>>,
     <<<<"^", <<>>>>, <<"lit", <<"A", "R">>>>, <<"+", <<"s">>>>, <<"+", <<"d">>>>>>,
     <<<<"^", <<>>>>, <<"lit", <<"M", "O">>>>, <<"+", <<"s">>>>, <<"+", <<"d">>>>>>,
     <<<<"lit", <<"F", "r", "o", "n", "t", "a", "g", "e", " ", "R", "o", "a", "d">>>>>>,
     <<<<"lit", <<"M", "e", "m", "o", "r", "i", "a", "l", " ", "H", "i", "g", "h", "w", "a", "y">>>>>>,
     <<<<"lit", <<"V", "e", "t", "e", "r", "a", "n", "s", " ", "H", "i", "g", "h", "w", "a", "y">>>>>>,
     <<<<"lit", <<"J", "i", "m", " ", "T", "h", "o", "r", "p", "e", " ", "M", "e", "m", "o", "r", "i", "a", "l", " ", "H", "i", "g", "h", "w", "a", "y">>>>>>,
     <<<<"lit", <<"P", "u", "r", "p", "l", "e", " ", "H", "e", "a", "r", "t", " ", "T", "r", "a", "i", "l">>>>>>,
     <<<<"lit", <<"4", "2", "n", "d">>>>, <<"*", <<".">>>>, <<"lit", <<"D", "i", "v", "i", "s", "i", "o", "n">>>>, <<"*", <<".">>>>, <<"lit", <<"H", "i", "g", "h", "w", "a", "y">>>>>>,
     <<<<"lit", <<"P", "r", "e", "s", "c", "o", "t", "t">>>>, <<"*", <<".">>>>, <<"lit", <<"F", "l", "a", "g", "s", "t", "a", "f", "f", " ", "H", "i", "g", "h", "w", "a", "y">>>>>>,
     <<<<"lit", <<"B", "u", "l", "l", "h", "e", "a", "d", " ", "C", "i", "t", "y">>>>, <<"*", <<".">>>>, <<"lit", <<"K", "i", "n", "g", "m", "a", "n", " ", "H", "i", "g", "h", "w", "a", "y">>>>>>,
     <<<<"lit", <<"O", "l", "d", " ", "W", "o", "m", "a", "n", " ", "S", "p", "r", "i", "n", "g", "s", " ", "R", "o", "a", "d">>>>>>,
     <<<<"lit", <<"P", "e", "t", "r", "i", "f", "i", "e", "d", " ", "F", "o", "r", "e", "s", "t", " ", "R", "o", "a", "d">>>>>>,
     <<<<"lit", <<"K", "e", "l", "b", "a", "k", "e", "r", " ", "R", "o", "a", "d">>>>>>,
     <<<<"lit", <<"C", "r", "o", "o", "k", "t", "o", "n", " ", "R", "o", "a", "d">>>>>>,
     <<<<"lit", <<"R", "a", "b", "b", "i", "t", " ", "R", "o", "a", "d">>>>>>,
     <<<<"lit", <<"P", "r", "a", "i", "r", "i", "e", " ", "G", "r", "a", "s", "s", " ", "T", "r", "a", "i", "l">>>>>>,
     <<<<"lit", <<"S", "p", "r", "i", "n", "g", "e", "r", " ", "H", "i", "g", "h", "w", "a", "y">>>>>>,
     <<<<"lit", <<"H", "u", "a", "l", "a", "p", "a", "i", " ", "V", "e", "t", "e", "r", "a", "n", "s", " ", "H", "i", "g", "h", "w", "a", "y">>>>>>,
     <<<<"lit", <<"J", "i", "m", " ", "T", "h", "o", "r", "p", "e", " ", "M", "e", "m", "o", "r", "i", "a", "l", " ", "H", "i", "g", "h", "w", "a", "y">>>>>>,
     <<<<"lit", <<"M", "a", "n", "n", "f", "o", "r", "d", " ", "E", "x", "p", "r", "e", "s", "s", "w", "a", "y">>>>>>,
     <<<<"lit", <<"M", "a", "r", "q", "u", "e", "s", " ", "H", "a", "y", "n", "e", "s", " ", "H", "i", "g", "h", "w", "a", "y">>>>>>,
     <<<<"lit", <<"J", "a", "c", "k", " ", "C", "h", "o", "a", "t", "e", " ", "H", "i", "g", "h", "w", "a", "y">>>>>>,
     <<<<"lit", <<"U", "S", " ", "H", "i", "g", "h", "w", "a", "y", " ", "6", "4">>>>>>,
     <<<<"lit", <<"U", "S", " ", "4", "1", "2", ";", "A", "R", " ", "2", "1">>>>>>,
     <<<<"lit", <<"U", "S", " ", "6", "0", ";", "U", "S", " ", "6", "2", ";", "M", "O", " ", "7", "7">>>>>>,
     <<<<"lit", <<"U", "S", " ", "8", "3">>>>>>,
     <<<<"lit", <<"U", "S", " ", "8", "7">>>>>>,
     <<<<"lit", <<"U", "S", " ", "6", "4">>>>>>,
     <<<<"lit", <<"S", "R", " ", "5", "9">>>>>>,
     <<<<"lit", <<"F", "M", " ", "1", "5", "7", "3">>>>>>,
     <<<<"lit", <<"F", "M", " ", "2", "8", "1">>>>>>,
     <<<<"lit", <<"F", "M", " ", "5", "2", "0">>>>>>,
     <<<<"lit", <<"N", "M", " ", "6", "8">>>>>>,
     <<<<"lit", <<"I", " ", "4", "0">>>>>>,
     <<<<"lit", <<"F", "r", "o", "n", "t", "a", "g", "e", " ", "R", "o", "a", "d">>>>>>,
     <<<<"lit", <<"C", "o", "n", "t", "i", "n", "e", "n", "t", "a", "l", " ", "D", "i", "v", "i", "d", "e">>>>>>,
     <<<<"lit", <<"F", "o", "r", "t", " ", "D", "e", "f", "i", "a", "n", "c", "e", " ", "A", "g", "e", "n", "c", "y">>>>>>,
     <<<<"lit", <<"C", "h", "u", "r", "c", "h", " ", "R", "o", "c", "k">>>>>>,
     <<<<"lit", <<"C", "h", "i", "e", "f", " ", "R", "a", "n", "c", "h", "o">>>>>>,
     <<<<"lit", <<"A", "n", "t", "a", "r", "e", "s">>>>>>,
     <<<<"lit", <<"C", "r", "o", "z", "i", "e", "r">>>>>>,
     <<<<"lit", <<"P", "e", "a", "c", "h", " ", "S", "p", "r", "i", "n", "g", "s">>>>>>,
     <<<<"lit", <<"M", "e", "s", "i", "t", "a">>>>>>,
     <<<<"lit", <<"C", "e", "d", "a", "r", " ", "C", "r", "e", "s", "t">>>>>>,
     <<<<"lit", <<"W", "a", "r", "e">>>>>>,
     <<<<"lit", <<"H", "i", "t", "t">>>>>>,
     <<<<"lit", <<"M", "c", "K", "i", "b", "b", "e", "n">>>>>>,
     <<<<"lit", <<"C", "a", "p", "p", "s">>>>>>,
     <<<<"lit", <<"C", "o", "b", "u", "r", "n">>>>>>,
     <<<<"lit", <<"T", "h", "o", "m", "p", "s", "o", "n", " ", "C", "o", "r", "n", "e", "r">>>>>>,
     <<<<"lit", <<"S", "t", "r", "a", "w", "b", "e", "r", "r", "y", " ", "S", "p", "r", "i", "n", "g">>>>>>,
     <<<<"lit", <<"S", "a", "n", "d", " ", "B", "a", "r", "r", "e", "n", "s">>>>>>,
     <<<<"lit", <<"S", "a", "n", "d", "i", "a", " ", "H", "a", "v", "e", "n">>>>>>,
     <<<<"lit", <<"R", "a", "b", "b", "i", "t", " ", "R", "o", "a", "d">>>>>>,
     <<<<"lit", <<"R", "a", "l", "l", "y", " ", "H", "i", "l", "l">>>>>>,
     <<<<"lit", <<"E", "r", "o", "s">>>>>>,
     <<<<"lit", <<"F", "r", "e", "e", "d", "o", "m">>>>>>,
     <<<<"lit", <<"P", "a", "r", "a", "g", "o", "n">>>>>>,
     <<<<"lit", <<"B", "u", "d">>>>>>,
     <<<<"lit", <<"G", "l", "e", "n", "w", "o", "o", "d">>>>>>,
     <<<<"lit", <<"K", "i", "r", "k", "e", "r", "s", "v", "i", "l", "l", "e">>>>>>,
     <<<<"lit", <<"J", "a", "c", "k", "s", "o", "n", "t", "o", "w", "n">>>>>>,
     <<<<"lit", <<"N", "e", "w", " ", "C", "o", "n", "c", "o", "r", "d">>>>>>,
     <<<<"lit", <<"L", "o", "r", "e", " ", "C", "i", "t", "y">>>>>>,
     <<<<"lit", <<"Q", "u", "a", "k", "e", "r", " ", "C", "i", "t", "y">>>>>>,
     <<<<"lit", <<"L", "i", "l", "l", "y", " ", "C", "h", "a", "p", "e", "l">>>>>>,
     <<<<"lit", <<"T", "u", "t", "t", "l", "e">>>>>>,
     <<<<"lit", <<"H", "u", "n", "t", "s", "v", "i", "l", "l", "e">>>>>>,
     <<<<"lit", <<"N", "e", "w", " ", "G", "r", "a", "n", "d", " ", "C", "h", "a", "i", "n">>>>>>,
     <<<<"lit", <<"V", "i", "e", "n", "n", "a">>>>>>,
     <<<<"lit", <<"N", "e", "w", " ", "B", "u", "r", "n", "s", "i", "d", "e">>>>>>,
     <<<<"lit", <<"C", "a", "r", "r", "i", "e", "r", " ", "M", "i", "l", "l", "s">>>>>>,
     <<<<"lit", <<"E", "l", "d", "o", "r", "a", "d", "o">>>>>>,
     <<<<"lit", <<"N", "o", "r", "r", "i", "s", " ", "C", "i", "t", "y">>>>>>,
     <<<<"lit", <<"C", "r", "o", "s", "s", "v", "i", "l", "l", "e">>>>>>,
     <<<<"lit", <<"P", "o", "p", "l", "a", "r", " ", "B", "l", "u", "f", "f">>>>>>,
     <<<<"lit", <<"D", "e", "x", "t", "e", "r">>>>>>,
     <<<<"lit", <<"G", "r", "a", "y", "r", "i", "d", "g", "e">>>>>>,
     <<<<"lit", <<"S", "a", "p", "u", "l", "p", "a">>>>>>,
     <<<<"lit", <<"B", "r", "o", "k", "e", "n", " ", "A", "r", "r", "o", "w">>>>>>,
     <<<<"lit", <<"M", "o", "u", "n", "d", " ", "C", "i", "t", "y">>>>>>,
     <<<<"lit", <<"N", "e", "w", " ", "G", "r", "a", "n", "d", " ", "C", "h", "a", "i", "n">>>>>>,
     <<<<"lit", <<"V", "i", "e", "n", "n", "a">>>>>>,
     <<<<"lit", <<"N", "e", "w", " ", "B", "u", "r", "n", "s", "i", "d", "e">>>>>>,
     <<<<"lit", <<"C", "a", "r", "r", "i", "e", "r", " ", "M", "i", "l", "l", "s">>>>>>,
     <<<<"lit", <<"E", "l", "d", "o", "r", "a", "d", "o">>>>>>,
     <<<<"lit", <<"N", "o", "r", "r", "i", "s", " ", "C", "i", "t", "y">>>>>>,
     <<<<"lit", <<"C", "r", "o", "s", "s", "v", "i", "l", "l", "e">>>>>>,
     <<<<"lit", <<"P", "o", "p", "l", "a", "r", " ", "B", "l", "u", "f", "f">>>>>>,
     <<<<"lit", <<"D", "e", "x", "t", "e", "r">>>>>>,
     <<<<"lit", <<"G", "r", "a", "y", "r", "i", "d", "g", "e">>>>>>,
     <<<<"lit", <<"S", "a", "p", "u", "l", "p", "a">>>>>>,
     <<<<"lit", <<"B", "r", "o", "k", "e", "n", " ", "A", "r", "r", "o", "w">>>>>>,
     <<<<"lit", <<"M", "o", "u", "n", "d", " ", "C", "i", "t", "y">>>>>> >>
\* is_likely_city(name); NumbersWithSpaces is r'^\d+\s*$' of its last test
is_likely_city(name) ==
  LET NumbersWithSpaces == <<<<"^", <<>>>>, <<"+", <<"d">>>>, <<"*", <<"s">>>>, <<"$", <<>>>>>>
  IN
  IF \E n \in 1..Len(non_city_patterns) : re_search(non_city_patterns[n], name, TRUE)
    THEN FALSE
  ELSE IF Len(name) < 2 \/ isdigit(name) THEN FALSE
  ELSE IF re_match(NumbersWithSpaces, name, FALSE) THEN FALSE
  ELSE TRUE

----------------------------------------------------------------------------
(* The cache file over the life of the processes that use it *)

\* RouteOrderer.load_city_cache: the entries of the file with a true value,
\* under the pair of numbers their key parses to; nothing when the file
\* cannot be opened or parsed (the bare except)
load_city_cache(d) ==
  IF ~d.exists \/ json_load(d.content).raised THEN EmptyCache
  ELSE LET m == json_load(d.content).value
       IN  [k \in {x \in DOMAIN m : Truthy(m[x])} |-> m[k]]

\* the files a process can find: those of InitialDisks, an empty file and
\* a file cut short
StoreFiles ==
  InitialDisks \cup
    { File(<<>>),
      File(<<OpenBrace, Chunk("member", CoordKey(PointAt(352000000, -1018000000)),
                              json_encode(Str(<<"Amarillo">>)))>>) }

InitStore ==
  /\ RunIdle /\ ResolverIdle /\ OfflineIdle /\ ReducerIdle /\ Idle(filter) /\ Idle(dedup)
  /\ Idle(final) /\ Idle(pool)
  /\ store \in {[phase |-> "stopped", cache |-> EmptyCache, file |-> f, pending |-> <<>>,
                 synced |-> FALSE, resave |-> FALSE, reloaded |-> FALSE,
                 persisted |-> EmptyCache, last |-> "none"] : f \in StoreFiles}

\* __init__ of a finder in a fresh process: self.cache = self.load_cache()
Construct ==
  /\ store.phase = "stopped"
  /\ LET l == load_cache(store.file)
     IN  store' = IF l.raised
                  THEN [store EXCEPT !.phase = "aborted", !.synced = FALSE,
                                     !.last = "load"]
                  ELSE [store EXCEPT !.phase = "running", !.cache = l.value,
                                     !.synced = TRUE, !.reloaded = store.synced,
                                     !.last = IF store.synced THEN "reload" ELSE "load"]
  /\ UNCHANGED <<runVars, resolver, offline, reducer, filter, dedup, final, pool>>

\* RouteOrderer.process_route in a fresh process: self.load_city_cache()
LoadCityCache ==
  /\ store.phase = "stopped"
  /\ store' = [store EXCEPT !.phase = "orderer", !.cache = load_city_cache(store.file),
                            !.synced = FALSE, !.last = "load"]
  /\ UNCHANGED <<runVars, resolver, offline, reducer, filter, dedup, final, pool>>

\* self.cache[coord_key] = ... of a resolver, on a miss: one of two keys,
\* with None, a name or ''
Insert ==
  /\ store.phase = "running"
  /\ \E k \in {CoordKey(PointAt(352000000, -1018000000)),
               CoordKey(PointAt(352100000, -1018000000))} \ DOMAIN store.cache :
     \E v \in {NoneVal, Str(<<"Amarillo">>), Str(<<>>)} :
       store' = [store EXCEPT !.cache = Put(store.cache, k, v), !.synced = FALSE,
                              !.last = "insert"]
  /\ UNCHANGED <<runVars, resolver, offline, reducer, filter, dedup, final, pool>>

\* save_cache, open(self.cache_file, 'w'): the file exists and is empty
SaveOpen ==
  /\ store.phase = "running"
  /\ store' = [store EXCEPT !.phase = "saving", !.file = File(<<>>),
                            !.pending = json_dump(store.cache),
                            !.resave = store.synced,
                            !.persisted = load_cache(store.file).value]
  /\ UNCHANGED <<runVars, resolver, offline, reducer, filter, dedup, final, pool>>

\* save_cache, json.dump: the next chunk of the text reaches the file
SaveWrite ==
  /\ store.phase = "saving" /\ store.pending # <<>>
  /\ store' = [store EXCEPT !.file = File(store.file.content \o <<Head(store.pending)>>),
                            !.pending = Tail(store.pending)]
  /\ UNCHANGED <<runVars, resolver, offline, reducer, filter, dedup, final, pool>>

\* save_cache, the end of the with block
SaveClose ==
  /\ store.phase = "saving" /\ store.pending = <<>>
  /\ store' = [store EXCEPT !.phase = "running", !.synced = TRUE,
                            !.last = IF store.resave THEN "reflush" ELSE "flush"]
  /\ UNCHANGED <<runVars, resolver, offline, reducer, filter, dedup, final, pool>>

\* the process ends or is stopped, at any point; its memory is kept in the
\* record for comparison with what the next process loads
Stop ==
  /\ store.phase \in {"running", "saving"}
  /\ store' = [store EXCEPT !.phase = "stopped", !.pending = <<>>,
                            !.synced = (store.synced /\ store.phase = "running"),
                            !.last = "stop"]
  /\ UNCHANGED <<runVars, resolver, offline, reducer, filter, dedup, final, pool>>

StoreNext ==
  Construct \/ LoadCityCache \/ Insert \/ SaveOpen \/ SaveWrite \/ SaveClose \/ Stop

\* Processes that load the cache file, insert into the cache and save it
SpecCache == InitStore /\ [][StoreNext]_vars

----------------------------------------------------------------------------
(* Calls of is_likely_city *)

\* str.lower()
ToLower(name) == [j \in 1..Len(name) |-> Lower(name[j])]

\* the literal text of the patterns r'^US\s+\d+' ... r'^MO\s+\d+'
RouteCodes == {<<"U", "S">>, <<"S", "R">>, <<"F", "M">>, <<"I">>, <<"N", "M">>, <<"A", "R">>, <<"M", "O">>}

\* the keywords of the patterns r'Highway' ... r'Division', r'Frontage Road'
Keywords ==
  {<<"H", "i", "g", "h", "w", "a", "y">>, <<"R", "o", "a", "d">>, <<"T", "r", "a", "i", "l">>, <<"E", "x", "p", "r", "e", "s", "s", "w", "a", "y">>, <<"F", "r", "o", "n", "t", "a", "g", "e", " ", "R", "o", "a", "d">>, <<"D", "i", "v", "i", "s", "i", "o", "n">>}

\* the names is_likely_city is called on: the six of the examples; a route
\* code, whitespace, digits and possibly more; a keyword, as listed or in
\* lower case, alone or inside a longer name; digits with whitespace before
\* them, after them or both; specific names of the list, in other letter
\* case and inside longer names; other names
FilterNames ==
  LET FilterExamples == {<<"U", "S", " ", "4", "0">>, <<"I", " ", "8", "0">>, <<"1", "2", "3">>, <<>>, <<"T", "u", "l", "s", "a">>, <<"S", "a", "n", "t", "a", " ", "F", "e">>}
      RouteNames ==
        {pre \o ws \o dig \o tail :
           pre \in RouteCodes, ws \in {<<" ">>, <<" ", " ">>, <<"\t">>}, dig \in {<<"4">>, <<"4", "0">>},
           tail \in {<<>>, <<" ", "B", "u", "s", "i", "n", "e", "s", "s">>}}
      KeywordNames ==
        {before \o kw \o after :
           kw \in Keywords \cup {ToLower(k) : k \in Keywords},
           before \in {<<>>, <<"O", "l", "d", " ">>, <<"x">>}, after \in {<<>>, <<" ", "9">>, <<"s">>}}
      NumericNames ==
        {lead \o dig \o trail :
           lead \in {<<>>, <<" ">>, <<" ", " ">>, <<"\t">>}, dig \in {<<"7">>, <<"1", "2", "3">>},
           trail \in {<<>>, <<" ">>, <<" ", " ">>, <<"\n">>}}
      ListedNames ==
        {<<"W", "a", "r", "e">>, <<"W", "A", "R", "E">>, <<"D", "e", "l", "a", "w", "a", "r", "e">>, <<"B", "u", "d">>, <<"B", "u", "d", "a">>, <<"V", "i", "e", "n", "n", "a">>, <<"v", "i", "e", "n", "n", "a">>, <<"N", "e", "w", " ", "V", "i", "e", "n", "n", "a">>,
         <<"E", "r", "o", "s">>, <<"F", "r", "e", "e", "d", "o", "m">>, <<"F", "r", "e", "e", "d", "o", "m", " ", "T", "o", "w", "n", "s", "h", "i", "p">>, <<"D", "e", "x", "t", "e", "r">>, <<"P", "o", "p", "l", "a", "r", " ", "B", "l", "u", "f", "f">>, <<"I", " ", "4", "0">>,
         <<"G", "l", "e", "n", "w", "o", "o", "d", " ", "S", "p", "r", "i", "n", "g", "s">>, <<"C", "h", "u", "r", "c", "h", " ", "R", "o", "c", "k">>}
      PlainNames ==
        {<<"A", "m", "a", "r", "i", "l", "l", "o">>, <<"A", "l", "b", "u", "q", "u", "e", "r", "q", "u", "e">>, <<"F", "l", "a", "g", "s", "t", "a", "f", "f">>, <<"S", "t", ".", " ", "L", "o", "u", "i", "s">>, <<"A">>, <<"X", "1">>, <<"u", "s", " ", "4", "0">>,
         <<"U", "S", "A", " ", "4", "0">>, <<"F", "M", "1", "5", "7", "3">>, <<"H", "i", " ", "4", "0">>, <<"O", "k", "l", "a", "h", "o", "m", "a", " ", "C", "i", "t", "y">>}
  IN  FilterExamples \cup RouteNames \cup KeywordNames \cup NumericNames
        \cup ListedNames \cup PlainNames

InitFilter ==
  /\ RunIdle /\ ResolverIdle /\ OfflineIdle /\ ReducerIdle /\ Idle(store) /\ Idle(dedup)
  /\ Idle(final) /\ Idle(pool)
  /\ filter \in {[phase |-> "args", name |-> n] : n \in FilterNames}

CallIsLikelyCity ==
  /\ filter.phase = "args"
  /\ filter' = [phase |-> "returned", name |-> filter.name,
                result |-> is_likely_city(filter.name)]
  /\ UNCHANGED <<runVars, resolver, offline, reducer, store, dedup, final, pool>>

\* Calls of is_likely_city on names
SpecFilter == InitFilter /\ [][CallIsLikelyCity]_vars

----------------------------------------------------------------------------
(* clean_city_list and the route orderer *)

\* the filtering list comprehension of clean_city_list
RECURSIVE likely_cities(_)
likely_cities(city_list) ==
  IF city_list = <<>> THEN <<>>
  ELSE (IF is_likely_city(Head(city_list)) THEN <<Head(city_list)>> ELSE <<>>)
         \o likely_cities(Tail(city_list))

\* the loop of clean_city_list over likely_cities from the k-th on, with
\* the set seen and the list unique_cities
RECURSIVE UniqueLoop(_, _, _, _)
UniqueLoop(likely, k, seen, unique_cities) ==
  IF k > Len(likely) THEN unique_cities
  ELSE IF likely[k] \notin seen
    THEN UniqueLoop(likely, k + 1, seen \cup {likely[k]}, Append(unique_cities, likely[k]))
    ELSE UniqueLoop(likely, k + 1, seen, unique_cities)

\* clean_city_list(cities)
clean_city_list(city_list) == UniqueLoop(likely_cities(city_list), 1, {}, <<>>)

\* A coordinate of the route orderer: the point, its time in half seconds
\* and the file it comes from.
RouteCoordinate(p, timestamp, gpx_file) ==
  [p |-> p, timestamp |-> timestamp, gpx_file |-> gpx_file]

\* timestamp.strftime('%Y-%m-%d %H:%M:%S'): the time in whole seconds
strftime(timestamp) == timestamp \div 2

\* RouteOrderer.get_city_for_coordinate: the coordinate itself as key, then
\* the coordinate rounded to six decimals, None when neither is cached.
\* The keys of city_cache are pairs of floats with six decimals: the
\* coordinate itself is one only when it has no more decimals.
get_city_for_coordinate(city_cache, p) ==
  LET HasSixDecimals == Coord[p][1] % 10 = 0 /\ Coord[p][2] % 10 = 0
  IN
  IF HasSixDecimals /\ <<Coord[p][1] \div 10, Coord[p][2] \div 10>> \in DOMAIN city_cache
    THEN city_cache[<<Coord[p][1] \div 10, Coord[p][2] \div 10>>]
  ELSE IF CoordKey(p) \in DOMAIN city_cache THEN city_cache[CoordKey(p)]
  ELSE NoneVal

\* len(coordinates) // 500 of find_cities_in_route_order
RouteSampleDivisor == 500

\* the loop of find_cities_in_route_order over sampled_coords from the k-th
\* on, with the list cities_found and the set seen_cities
RECURSIVE RouteLoop(_, _, _, _, _)
RouteLoop(city_cache, sampled, k, cities_found, seen_cities) ==
  IF k > Len(sampled) THEN cities_found
  ELSE LET city == get_city_for_coordinate(city_cache, sampled[k].p)
       IN  IF Truthy(city) /\ city.text \notin seen_cities
             THEN RouteLoop(city_cache, sampled, k + 1,
                            Append(cities_found,
                                   <<city.text, strftime(sampled[k].timestamp),
                                     sampled[k].gpx_file>>),
                            seen_cities \cup {city.text})
             ELSE RouteLoop(city_cache, sampled, k + 1, cities_found, seen_cities)

\* RouteOrderer.find_cities_in_route_order(coordinates)
find_cities_in_route_order(city_cache, coords) ==
  RouteLoop(city_cache,
            Stride(coords, Max(1, Len(coords) \div RouteSampleDivisor)),
            1, <<>>, {})

\* list.sort(key=...) of the list s, keys[k] the key of s[k]: the stable
\* sort, every element behind the elements with a smaller key and behind
\* the earlier elements with the same key
list_sort(s, keys) ==
  LET rank(k) == 1 + Cardinality({j \in 1..Len(s) :
                                    \/ keys[j] < keys[k]
                                    \/ keys[j] = keys[k] /\ j < k})
  IN  [r \in 1..Len(s) |-> s[CHOOSE k \in 1..Len(s) : rank(k) = r]]

\* A point of a GPX file: time is <<>> for a point with no time element
\* (point.time is None) and <<t>> for one with the time t.
TrackPoint(p, time, gpx_file) == [p |-> p, time |-> time, gpx_file |-> gpx_file]

\* RouteOrderer.extract_route_coordinates over the points of the files in
\* the order of sorted(os.listdir(...)): the points with a time, sorted by
\* time
extract_route_coordinates(points) ==
  LET timed == SelectSeq(points, LAMBDA pt : pt.time # <<>>)
      all_coordinates ==
        [k \in 1..Len(timed) |->
           RouteCoordinate(timed[k].p, timed[k].time[1], timed[k].gpx_file)]
  IN  list_sort(all_coordinates,
                [k \in 1..Len(all_coordinates) |-> all_coordinates[k].timestamp])

\* RouteOrderer.process_route with the cache load_city_cache has built
process_route(city_cache, points) ==
  find_cities_in_route_order(city_cache, extract_route_coordinates(points))

MaxNames == 3

MaxRoute == 4

\* the names of the lists clean_city_list is called on
DedupNames == {<<"T", "u", "l", "s", "a">>, <<"S", "a", "n", "t", "a", " ", "F", "e">>, <<"U", "S", " ", "4", "0">>, <<"t", "u", "l", "s", "a">>}

\* the caches load_city_cache can have built
RouteCaches ==
  { Put(Put(EmptyCache, CoordKey(PointAt(352000000, -1018000000)), Str(<<"T", "u", "l", "s", "a">>)),
        CoordKey(PointAt(352100000, -1018000000)), Str(<<"S", "a", "n", "t", "a", " ", "F", "e">>)),
    Put(Put(EmptyCache, CoordKey(PointAt(352000000, -1018000000)), Str(<<"T", "u", "l", "s", "a">>)),
        CoordKey(PointAt(352100000, -1018000000)), Str(<<"U", "S", " ", "4", "0">>)) }

\* routes of up to MaxRoute coordinates, no two with the same time, in
\* any order.  The points: two with cached keys, one that rounds to the
\* key of the first, one that is not cached; the times, in half seconds,
\* are 1 s, 2 s, 3 s and 5 s.
Routes ==
  LET RoutePoints ==
        { PointAt(352000000, -1018000000), PointAt(352000003, -1018000003),
          PointAt(352100000, -1018000000), PointAt(351000000, -1066200000) }
      RouteTimes == {2, 4, 6, 10}
  IN  UNION {{r \in [1..m -> {RouteCoordinate(p, t, "route.gpx") :
                                p \in RoutePoints, t \in RouteTimes}] :
                \A a, b \in 1..m : a # b => r[a].timestamp # r[b].timestamp} :
             m \in 0..Min({MaxRoute, Cardinality(RouteTimes)})}

\* GpxPoints: the points of GPX files of up to MaxRoute points: the two
\* cached points, each with no time or with the time 1 s, 2 s or 3 s
InitDedup ==
  LET GpxPoints ==
        SeqsUpTo({TrackPoint(p, t, "route.gpx") :
                    p \in {PointAt(352000000, -1018000000), PointAt(352100000, -1018000000)},
                    t \in {<<>>, <<2>>, <<4>>, <<6>>}}, MaxRoute)
  IN
  /\ RunIdle /\ ResolverIdle /\ OfflineIdle /\ ReducerIdle /\ Idle(store) /\ Idle(filter)
  /\ Idle(final) /\ Idle(pool)
  /\ dedup \in
       {[phase |-> "args", cities |-> c, city_cache |-> EmptyCache, coordinates |-> <<>>,
         points |-> <<>>] :
          c \in SeqsUpTo(DedupNames, MaxNames)}
       \cup
       {[phase |-> "args", cities |-> <<>>, city_cache |-> cc, coordinates |-> r,
         points |-> <<>>] :
          cc \in RouteCaches, r \in Routes}
       \cup
       {[phase |-> "args", cities |-> <<>>, city_cache |-> cc, coordinates |-> <<>>,
         points |-> g] :
          cc \in RouteCaches, g \in GpxPoints}

CallCleanCityList ==
  /\ dedup.phase = "args"
  /\ dedup' = [phase |-> "clean_city_list", cities |-> dedup.cities,
               city_cache |-> dedup.city_cache, coordinates |-> dedup.coordinates,
               points |-> dedup.points, out |-> clean_city_list(dedup.cities)]
  /\ UNCHANGED <<runVars, resolver, offline, reducer, store, filter, final, pool>>

CallFindCitiesInRouteOrder ==
  /\ dedup.phase = "args"
  /\ dedup' = [phase |-> "find_cities_in_route_order", cities |-> dedup.cities,
               city_cache |-> dedup.city_cache, coordinates |-> dedup.coordinates,
               points |-> dedup.points,
               out |-> find_cities_in_route_order(dedup.city_cache, dedup.coordinates)]
  /\ UNCHANGED <<runVars, resolver, offline, reducer, store, filter, final, pool>>

CallProcessRoute ==
  /\ dedup.phase = "args"
  /\ dedup' = [phase |-> "process_route", cities |-> dedup.cities,
               city_cache |-> dedup.city_cache,
               coordinates |-> extract_route_coordinates(dedup.points),
               points |-> dedup.points,
               out |-> process_route(dedup.city_cache, dedup.points)]
  /\ UNCHANGED <<runVars, resolver, offline, reducer, store, filter, final, pool>>

DedupNext == CallCleanCityList \/ CallFindCitiesInRouteOrder \/ CallProcessRoute

\* Calls of clean_city_list and of find_cities_in_route_order
SpecDedup == InitDedup /\ [][DedupNext]_vars

----------------------------------------------------------------------------
(* final_cities_with_nyc.main: the west-to-east list *)

\* the dict city_longitudes as the list of its items, longitudes in 1e-4 degrees
city_longitudes ==
  <<
     <<<<"L", "o", "s", " ", "A", "n", "g", "e", "l", "e", "s">>, -1182437>>,
     <<<<"S", "a", "n", "t", "a", " ", "M", "o", "n", "i", "c", "a">>, -1184912>>,
     <<<<"S", "a", "n", " ", "G", "a", "b", "r", "i", "e", "l">>, -1181088>>,
     <<<<"G", "l", "e", "n", "d", "o", "r", "a">>, -1178653>>,
     <<<<"R", "a", "n", "c", "h", "o", " ", "C", "u", "c", "a", "m", "o", "n", "g", "a">>, -1175859>>,
     <<<<"F", "o", "n", "t", "a", "n", "a">>, -1174359>>,
     <<<<"C", "a", "j", "o", "n">>, -1174000>>,
     <<<<"H", "e", "s", "p", "e", "r", "i", "a">>, -1173006>>,
     <<<<"A", "p", "p", "l", "e", " ", "V", "a", "l", "l", "e", "y">>, -1171859>>,
     <<<<"L", "u", "c", "e", "r", "n", "e", " ", "V", "a", "l", "l", "e", "y">>, -1169667>>,
     <<<<"Y", "u", "c", "c", "a", " ", "V", "a", "l", "l", "e", "y">>, -1164167>>,
     <<<<"T", "w", "e", "n", "t", "y", "n", "i", "n", "e", " ", "P", "a", "l", "m", "s">>, -1160547>>,
     <<<<"B", "u", "l", "l", "h", "e", "a", "d", " ", "C", "i", "t", "y">>, -1145686>>,
     <<<<"G", "o", "l", "d", "e", "n", " ", "V", "a", "l", "l", "e", "y">>, -1141236>>,
     <<<<"N", "e", "w", " ", "K", "i", "n", "g", "m", "a", "n", "-", "B", "u", "t", "l", "e", "r">>, -1140167>>,
     <<<<"F", "l", "a", "g", "s", "t", "a", "f", "f">>, -1116513>>,
     <<<<"S", "e", "d", "o", "n", "a">>, -1117610>>,
     <<<<"H", "o", "l", "b", "r", "o", "o", "k">>, -1101623>>,
     <<<<"W", "i", "n", "s", "l", "o", "w">>, -1106973>>,
     <<<<"S", "u", "n", " ", "V", "a", "l", "l", "e", "y">>, -1100000>>,
     <<<<"A", "l", "b", "u", "q", "u", "e", "r", "q", "u", "e">>, -1066504>>,
     <<<<"G", "a", "l", "l", "u", "p">>, -1087426>>,
     <<<<"M", "a", "d", "r", "i", "d">>, -1061536>>,
     <<<<"T", "e", "s", "u", "q", "u", "e">>, -1059208>>,
     <<<<"S", "o", "m", "b", "r", "i", "l", "l", "o">>, -1060000>>,
     <<<<"V", "a", "l", "l", "e", " ", "E", "s", "c", "o", "n", "d", "i", "d", "o">>, -1055000>>,
     <<<<"E", "a", "g", "l", "e", " ", "N", "e", "s", "t">>, -1054667>>,
     <<<<"R", "a", "y", "a", "d", "o">>, -1050000>>,
     <<<<"S", "p", "r", "i", "n", "g", "e", "r">>, -1045000>>,
     <<<<"S", "t", "i", "l", "l", "w", "a", "t", "e", "r">>, -1040000>>,
     <<<<"T", "u", "l", "s", "a">>, -959928>>,
     <<<<"S", "a", "p", "u", "l", "p", "a">>, -958170>>,
     <<<<"B", "r", "o", "k", "e", "n", " ", "A", "r", "r", "o", "w">>, -958170>>,
     <<<<"F", "a", "y", "e", "t", "t", "e", "v", "i", "l", "l", "e">>, -941574>>,
     <<<<"M", "o", "u", "n", "t", "a", "i", "n", " ", "H", "o", "m", "e">>, -923853>>,
     <<<<"F", "a", "i", "r", "d", "e", "a", "l", "i", "n", "g">>, -900000>>,
     <<<<"P", "o", "p", "l", "a", "r", " ", "B", "l", "u", "f", "f">>, -903926>>,
     <<<<"D", "e", "x", "t", "e", "r">>, -899587>>,
     <<<<"G", "r", "a", "y", "r", "i", "d", "g", "e">>, -890000>>,
     <<<<"C", "a", "r", "r", "i", "e", "r", " ", "M", "i", "l", "l", "s">>, -880000>>,
     <<<<"E", "l", "d", "o", "r", "a", "d", "o">>, -880000>>,
     <<<<"N", "o", "r", "r", "i", "s", " ", "C", "i", "t", "y">>, -880000>>,
     <<<<"C", "r", "o", "s", "s", "v", "i", "l", "l", "e">>, -880000>>,
     <<<<"N", "e", "w", " ", "B", "u", "r", "n", "s", "i", "d", "e">>, -880000>>,
     <<<<"V", "i", "e", "n", "n", "a">>, -880000>>,
     <<<<"M", "o", "u", "n", "d", " ", "C", "i", "t", "y">>, -880000>>,
     <<<<"V", "i", "n", "c", "e", "n", "n", "e", "s">>, -875286>>,
     <<<<"B", "i", "c", "k", "n", "e", "l", "l">>, -873078>>,
     <<<<"K", "e", "e", "n", "s", "b", "u", "r", "g">>, -870000>>,
     <<<<"G", "r", "a", "y", "v", "i", "l", "l", "e">>, -870000>>,
     <<<<"D", "a", "y", "t", "o", "n">>, -841916>>,
     <<<<"B", "e", "a", "v", "e", "r", "c", "r", "e", "e", "k">>, -840633>>,
     <<<<"C", "e", "d", "a", "r", "v", "i", "l", "l", "e">>, -838083>>,
     <<<<"Z", "a", "n", "e", "s", "v", "i", "l", "l", "e">>, -820132>>,
     <<<<"N", "e", "w", " ", "L", "e", "x", "i", "n", "g", "t", "o", "n">>, -822081>>,
     <<<<"A", "l", "l", "e", "n", "t", "o", "w", "n">>, -754638>>,
     <<<<"B", "e", "t", "h", "l", "e", "h", "e", "m">>, -753705>>,
     <<<<"E", "a", "s", "t", " ", "H", "a", "n", "o", "v", "e", "r", " ", "T", "o", "w", "n", "s", "h", "i", "p">>, -760000>>,
     <<<<"B", "e", "t", "h", "e", "l", " ", "T", "o", "w", "n", "s", "h", "i", "p">>, -760000>>,
     <<<<"G", "r", "e", "e", "n", "w", "i", "c", "h", " ", "T", "o", "w", "n", "s", "h", "i", "p">>, -750000>>,
     <<<<"J", "e", "f", "f", "e", "r", "s", "o", "n", " ", "T", "o", "w", "n", "s", "h", "i", "p">>, -750000>>,
     <<<<"D", "o", "n", "e", "g", "a", "l", " ", "T", "o", "w", "n", "s", "h", "i", "p">>, -790000>>,
     <<<<"D", "u", "b", "l", "i", "n", " ", "T", "o", "w", "n", "s", "h", "i", "p">>, -790000>>,
     <<<<"E", "l", "i", "z", "a", "b", "e", "t", "h", " ", "T", "o", "w", "n", "s", "h", "i", "p">>, -790000>>,
     <<<<"E", "a", "s", "t", " ", "H", "u", "n", "t", "i", "n", "g", "d", "o", "n", " ", "T", "o", "w", "n", "s", "h", "i", "p">>, -790000>>,
     <<<<"M", "o", "u", "n", "t", " ", "P", "l", "e", "a", "s", "a", "n", "t", " ", "T", "o", "w", "n", "s", "h", "i", "p">>, -790000>>,
     <<<<"S", "u", "s", "q", "u", "e", "h", "a", "n", "n", "a", " ", "T", "o", "w", "n", "s", "h", "i", "p">>, -760000>>,
     <<<<"U", "p", "p", "e", "r", " ", "B", "e", "r", "n", " ", "T", "o", "w", "n", "s", "h", "i", "p">>, -760000>>,
     <<<<"W", "e", "s", "t", " ", "P", "e", "n", "n", "s", "b", "o", "r", "o", " ", "T", "o", "w", "n", "s", "h", "i", "p">>, -770000>>,
     <<<<"L", "u", "r", "g", "a", "n", " ", "T", "o", "w", "n", "s", "h", "i", "p">>, -770000>>,
     <<<<"B", "r", "u", "s", "h", " ", "C", "r", "e", "e", "k", " ", "T", "o", "w", "n", "s", "h", "i", "p">>, -780000>>,
     <<<<"S", "t", "o", "n", "y", "c", "r", "e", "e", "k", " ", "T", "o", "w", "n", "s", "h", "i", "p">>, -780000>>,
     <<<<"N", "o", "r", "t", "h", " ", "F", "r", "a", "n", "k", "l", "i", "n", " ", "T", "o", "w", "n", "s", "h", "i", "p">>, -800000>>,
     <<<<"N", "o", "t", "t", "i", "n", "g", "h", "a", "m", " ", "T", "o", "w", "n", "s", "h", "i", "p">>, -800000>>,
     <<<<"N", "a", "p", "i", "e", "r", " ", "T", "o", "w", "n", "s", "h", "i", "p">>, -780000>>,
     <<<<"M", "o", "n", "r", "o", "e", " ", "T", "o", "w", "n", "s", "h", "i", "p">>, -760000>>,
     <<<<"M", "e", "t", "a", "l", " ", "T", "o", "w", "n", "s", "h", "i", "p">>, -770000>>,
     <<<<"H", "a", "c", "k", "e", "n", "s", "a", "c", "k">>, -740431>>,
     <<<<"R", "o", "c", "k", "a", "w", "a", "y", " ", "T", "o", "w", "n", "s", "h", "i", "p">>, -740000>>,
     <<<<"F", "a", "i", "r", "f", "i", "e", "l", "d">>, -740000>>,
     <<<<"N", "e", "w", " ", "Y", "o", "r", "k">>, -740060>>,
     <<<<"W", "h", "e", "e", "l", "i", "n", "g">>, -807209>>
  >>

\* the longitude of a name with "Township" or "Pennsylvania" that is not in
\* the dict, and the longitude of every other name that is not in it
RegionalLongitude == -770000

DefaultLongitude == -1000000

\* sub in s, for two strings
str_in(sub, s) ==
  \E k \in 0..(Len(s) - Len(sub)) : SubSeq(s, k + 1, k + Len(sub)) = sub

\* the names of the rows of cities_cleaned.csv behind the header: row[0]
\* of every row that is not empty
RECURSIVE read_cities(_)
read_cities(rows) ==
  IF rows = <<>> THEN <<>>
  ELSE (IF Head(rows) # <<>> THEN <<Head(rows)[1]>> ELSE <<>>) \o read_cities(Tail(rows))

\* the list cities with 'New York' appended when it is not in it
with_new_york(city_list) ==
  IF \E k \in 1..Len(city_list) : city_list[k] = <<"N", "e", "w", " ", "Y", "o", "r", "k">>
    THEN city_list ELSE Append(city_list, <<"N", "e", "w", " ", "Y", "o", "r", "k">>)

\* the longitude the loop of main pairs a name with
longitude_of_Default(city) == DefaultLongitude

longitude_of(city) ==
  IF \E k \in 1..Len(city_longitudes) : city_longitudes[k][1] = city
    THEN city_longitudes[CHOOSE k \in 1..Len(city_longitudes) : city_longitudes[k][1] = city][2]
  ELSE IF str_in(<<"T", "o", "w", "n", "s", "h", "i", "p">>, city) \/ str_in(<<"P", "e", "n", "n", "s", "y", "l", "v", "a", "n", "i", "a">>, city)
    THEN RegionalLongitude
  ELSE DefaultLongitude

\* cities_with_longitude behind the sort
cities_with_longitude(city_list) ==
  list_sort([k \in 1..Len(city_list) |-> <<city_list[k], longitude_of(city_list[k])>>],
            [k \in 1..Len(city_list) |-> longitude_of(city_list[k])])

\* the rows of cities_final_route.csv behind the header
final_route(city_list) ==
  LET sorted == cities_with_longitude(city_list)
  IN  [k \in 1..Len(sorted) |-> <<k, sorted[k][1], sorted[k][2]>>]

\* the rows cities_cleaned.csv can hold: an empty row, or a row with a
\* name: three names of the dict, two of them with the same longitude, two
\* names with Township, one of them in the dict with the regional
\* longitude, a name with Pennsylvania, a name with neither, and New York
InitFinal ==
  /\ RunIdle /\ ResolverIdle /\ OfflineIdle /\ ReducerIdle
  /\ Idle(store) /\ Idle(filter) /\ Idle(dedup) /\ Idle(pool)
  /\ final \in {[phase |-> "args", rows |-> r] :
                 r \in SeqsUpTo({<<>>, <<<<"L", "o", "s", " ", "A", "n", "g", "e", "l", "e", "s">>>>, <<<<"S", "a", "p", "u", "l", "p", "a">>>>, <<<<"B", "r", "o", "k", "e", "n", " ", "A", "r", "r", "o", "w">>>>,
                                 <<<<"H", "a", "n", "o", "v", "e", "r", " ", "T", "o", "w", "n", "s", "h", "i", "p">>>>, <<<<"M", "e", "t", "a", "l", " ", "T", "o", "w", "n", "s", "h", "i", "p">>>>,
                                 <<<<"P", "e", "n", "n", "s", "y", "l", "v", "a", "n", "i", "a", " ", "F", "u", "r", "n", "a", "c", "e">>>>, <<<<"A", "m", "a", "r", "i", "l", "l", "o">>>>,
                                 <<<<"N", "e", "w", " ", "Y", "o", "r", "k">>>>}, MaxNames)}

FinalMain ==
  /\ final.phase = "args"
  /\ final' = [phase |-> "done", rows |-> final.rows,
               cities |-> with_new_york(read_cities(final.rows)),
               out |-> final_route(with_new_york(read_cities(final.rows)))]
  /\ UNCHANGED <<runVars, resolver, offline, reducer, store, filter, dedup, pool>>

\* Runs of final_cities_with_nyc.main
SpecFinal == InitFinal /\ [][FinalMain]_vars

----------------------------------------------------------------------------
(* main.py: get_city_names and its thread pool *)

MAX_WORKERS == 5

\* the most coordinates get_city_names is called with
MaxCoords == 6

\* The city the collaborator knows at the n-th sampled coordinate: the
\* sampled coordinates lie in two cities by turns.
CityAt(n) ==
  IF n % 2 = 1 THEN <<"T", "u", "l", "s", "a">> ELSE <<"A", "m", "a", "r", "i", "l", "l", "o">>

\* a < b for two strings, by code points (letters only)
str_lt(a, b) ==
  LET Letters == <<"A", "B", "C", "D", "E", "F", "G", "H", "I", "J", "K", "L", "M",
                   "N", "O", "P", "Q", "R", "S", "T", "U", "V", "W", "X", "Y", "Z",
                   "a", "b", "c", "d", "e", "f", "g", "h", "i", "j", "k", "l", "m",
                   "n", "o", "p", "q", "r", "s", "t", "u", "v", "w", "x", "y", "z">>
      ord(c) == CHOOSE n \in 1..Len(Letters) : Letters[n] = c
  IN  \E k \in 1..(Len(b)) :
        /\ \A j \in 1..(k - 1) : j <= Len(a) /\ a[j] = b[j]
        /\ (k > Len(a) \/ (k - 1 < Len(a) /\ ord(a[k]) < ord(b[k])))

\* sorted(cities) of a set of strings
sorted(S) ==
  [k \in 1..Cardinality(S) |->
     CHOOSE x \in S : Cardinality({y \in S : str_lt(y, x)}) = k - 1]

\* The tasks of the executor, one per submitted coordinate, by their
\* position in process_coordinate:
\*   "unsubmitted"  executor.submit not yet called for it
\*   "queued"       in the work queue of the executor
\*   "reverse"      a worker runs it and is about to call geolocator.reverse
\*   "lock"         the call returned a city; at `with lock:`
\*   "add"          inside the with block, holding the lock
\*   "sleep"        in time.sleep(random.randint(1, 3))
\*   "done"         process_coordinate has returned; its worker is free
\* The length of a sleep is not part of the state: no step depends on it.
Running(tasks) == {t \in DOMAIN tasks : tasks[t] \in {"reverse", "lock", "add", "sleep"}}

\* get_city_names(coordinates) is entered: an empty set, a free lock, a
\* new executor, nothing submitted.  Observers: found, the cities the calls
\* of reverse have returned, and failed, whether one has raised.
InitPool ==
  /\ RunIdle /\ ResolverIdle /\ OfflineIdle /\ ReducerIdle
  /\ Idle(store) /\ Idle(filter) /\ Idle(dedup) /\ Idle(final)
  /\ pool \in {[phase |-> "running", main |-> "submit",
                tasks |-> [t \in 1..n |-> "unsubmitted"],
                cities |-> {}, lock |-> 0, result |-> <<>>,
                found |-> {}, failed |-> FALSE] : n \in 0..MaxCoords}

\* executor.submit(process_coordinate, ...) for the next coordinate of the
\* list comprehension
Submit ==
  /\ pool.phase = "running" /\ pool.main = "submit"
  /\ \E t \in DOMAIN pool.tasks :
       /\ pool.tasks[t] = "unsubmitted"
       /\ \A u \in 1..(t - 1) : pool.tasks[u] # "unsubmitted"
       /\ pool' = [pool EXCEPT !.tasks[t] = "queued"]
  /\ UNCHANGED <<runVars, resolver, offline, reducer, store, filter, dedup, final>>

\* the list comprehension is through: the main thread goes on to wait
Submitted ==
  /\ pool.phase = "running" /\ pool.main = "submit"
  /\ \A t \in DOMAIN pool.tasks : pool.tasks[t] # "unsubmitted"
  /\ pool' = [pool EXCEPT !.main = "wait"]
  /\ UNCHANGED <<runVars, resolver, offline, reducer, store, filter, dedup, final>>

\* a worker takes the oldest item of the work queue whatever the number of
\* tasks that run
Start_Unbounded ==
  /\ pool.phase = "running"
  /\ \E t \in DOMAIN pool.tasks :
       /\ pool.tasks[t] = "queued"
       /\ \A u \in 1..(t - 1) : pool.tasks[u] # "queued"
       /\ pool' = [pool EXCEPT !.tasks[t] = "reverse"]
  /\ UNCHANGED <<runVars, resolver, offline, reducer, store, filter, dedup, final>>

\* ThreadPoolExecutor(max_workers=MAX_WORKERS): one of at most MAX_WORKERS
\* worker threads, free, takes the oldest item of the work queue
Start ==
  /\ pool.phase = "running"
  /\ Cardinality(Running(pool.tasks)) < MAX_WORKERS
  /\ \E t \in DOMAIN pool.tasks :
       /\ pool.tasks[t] = "queued"
       /\ \A u \in 1..(t - 1) : pool.tasks[u] # "queued"
       /\ pool' = [pool EXCEPT !.tasks[t] = "reverse"]
  /\ UNCHANGED <<runVars, resolver, offline, reducer, store, filter, dedup, final>>

\* geolocator.reverse returns a location with a city, returns nothing with
\* a city (None, or an address without 'city'), or raises; the except
\* clause prints and process_coordinate returns
Reverse ==
  /\ pool.phase = "running"
  /\ \E t \in DOMAIN pool.tasks :
       /\ pool.tasks[t] = "reverse"
       /\ \/ pool' = [pool EXCEPT !.tasks[t] = "lock", !.found = @ \cup {CityAt(t)}]
          \/ pool' = [pool EXCEPT !.tasks[t] = "sleep"]
          \/ pool' = [pool EXCEPT !.tasks[t] = "done", !.failed = TRUE]
  /\ UNCHANGED <<runVars, resolver, offline, reducer, store, filter, dedup, final>>

\* a with block entered whether the lock is free or not
Acquire_NoLock ==
  /\ pool.phase = "running"
  /\ \E t \in DOMAIN pool.tasks :
       /\ pool.tasks[t] = "lock"
       /\ pool' = [pool EXCEPT !.tasks[t] = "add", !.lock = t]
  /\ UNCHANGED <<runVars, resolver, offline, reducer, store, filter, dedup, final>>

\* with lock: the lock is acquired when it is free
Acquire ==
  /\ pool.phase = "running"
  /\ pool.lock = 0
  /\ \E t \in DOMAIN pool.tasks :
       /\ pool.tasks[t] = "lock"
       /\ pool' = [pool EXCEPT !.tasks[t] = "add", !.lock = t]
  /\ UNCHANGED <<runVars, resolver, offline, reducer, store, filter, dedup, final>>

\* cities_set.add(city); print(city); the with block ends and releases the
\* lock
Add ==
  /\ pool.phase = "running"
  /\ \E t \in DOMAIN pool.tasks :
       /\ pool.tasks[t] = "add"
       /\ pool' = [pool EXCEPT !.tasks[t] = "sleep",
                               !.cities = @ \cup {CityAt(t)},
                               !.lock = 0]
  /\ UNCHANGED <<runVars, resolver, offline, reducer, store, filter, dedup, final>>

\* time.sleep(random.randint(1, 3)) and the return of process_coordinate
Sleep ==
  /\ pool.phase = "running"
  /\ \E t \in DOMAIN pool.tasks :
       /\ pool.tasks[t] = "sleep"
       /\ pool' = [pool EXCEPT !.tasks[t] = "done"]
  /\ UNCHANGED <<runVars, resolver, offline, reducer, store, filter, dedup, final>>

\* every future.result() has returned, the with block of the executor has
\* joined the workers, and get_city_names returns sorted(cities)
Return ==
  /\ pool.phase = "running" /\ pool.main = "wait"
  /\ \A t \in DOMAIN pool.tasks : pool.tasks[t] = "done"
  /\ pool' = [pool EXCEPT !.main = "returned", !.result = sorted(pool.cities)]
  /\ UNCHANGED <<runVars, resolver, offline, reducer, store, filter, dedup, final>>

PoolNext == Submit \/ Submitted \/ Start \/ Reverse \/ Acquire \/ Add \/ Sleep \/ Return

\* get_city_names of main.py
SpecPool == InitPool /\ [][PoolNext]_vars

----------------------------------------------------------------------------
(* Properties of the cached resolver *)

\* the call is a cache miss on a Location that carries an address mapping
MissWithAddress(call) ==
  /\ CoordKey(resolver.p) \notin DOMAIN call.before
  /\ call.resp.exc = "none" /\ call.resp.location /\ call.resp.hasAddress

\* the call is a cache miss on a Location that carries a display_name and no
\* address mapping
MissWithDisplayOnly(call) ==
  /\ CoordKey(resolver.p) \notin DOMAIN call.before
  /\ call.resp.exc = "none" /\ call.resp.location
  /\ ~call.resp.hasAddress /\ call.resp.hasDisplay

\* C1: a second consecutive call of a cached resolver on the same coordinate
\* returns what the first call returned, None included, and does not call
\* reverse(), whatever the collaborator did or would do.
ResolverIdempotent ==
  resolver.phase = "ready" =>
    \A k \in 2..Len(resolver.calls) :
      /\ resolver.calls[k].out.result = resolver.calls[k - 1].out.result
      /\ ~resolver.calls[k].out.reverse

\* two calls after a first call that asked the collaborator, which failed
ResolverIdempotentWitness ==
  /\ resolver.phase = "ready" /\ Len(resolver.calls) = 2
  /\ resolver.calls[1].out.reverse
  /\ resolver.calls[1].resp.exc = "GeocoderTimedOut"
  /\ resolver.calls[1].out.result = NoneVal
  /\ resolver.calls[2].resp.exc = "none" /\ resolver.calls[2].resp.location

\* C4: on a response with a display_name and no address mapping, the
\* efficient and the comprehensive resolver return the first comma-delimited
\* segment of the display_name, stripped, and cache it.
DisplayOnlyResolved ==
  (resolver.phase = "ready" /\ resolver.finder \in {"efficient", "comprehensive"}) =>
    \A k \in 1..Len(resolver.calls) :
      MissWithDisplayOnly(resolver.calls[k]) =>
        LET segment == Str(strip(split_first(resolver.calls[k].resp.display)))
        IN  /\ resolver.calls[k].out.result = segment
            /\ CoordKey(resolver.p) \in DOMAIN resolver.calls[k].out.cache
            /\ resolver.calls[k].out.cache[CoordKey(resolver.p)] = segment

PriorityOrder == <<"city", "town", "village", "hamlet", "municipality", "suburb">>

\* C5: on a cache miss every online resolver returns the value of the first
\* component kind present in the address, in the order city, town, village,
\* hamlet, municipality, suburb, for every non-empty set of kinds.
AddressPriority ==
  resolver.phase = "ready" =>
    \A k \in 1..Len(resolver.calls) :
      (MissWithAddress(resolver.calls[k]) /\ resolver.calls[k].resp.address # {}) =>
        LET present == {n \in 1..6 : PriorityOrder[n] \in resolver.calls[k].resp.address}
        IN  resolver.calls[k].out.result = Str(AddressValue(PriorityOrder[Min(present)]))

----------------------------------------------------------------------------
(* Properties of the find_cities_* runs *)

\* C2: every online resolution that returned left an entry under the key of
\* its coordinate, and no two calls of reverse() in a run are for coordinates
\* with the same key.
ReverseOncePerKey ==
  /\ \A a \in 1..Len(steps) :
       (steps[a].tier = "online" /\ a < i) => CoordKey(steps[a].p) \in DOMAIN cache
  /\ \A a, b \in 1..Len(steps) :
       (a < b /\ steps[a].reverse /\ steps[b].reverse)
         => CoordKey(steps[a].p) # CoordKey(steps[b].p)

\* two different coordinates with one key: the first went to the collaborator,
\* which failed, the second was answered by the cache
ReverseOncePerKeyWitness ==
  \E a, b \in 1..Len(steps) :
    /\ a < b /\ steps[a].p # steps[b].p
    /\ CoordKey(steps[a].p) = CoordKey(steps[b].p)
    /\ steps[a].reverse /\ steps[a].raised
    /\ steps[b].tier = "online" /\ ~steps[b].reverse

\* C3: no failure of reverse() leaves the resolver: the call returns None,
\* the key of the coordinate holds None, and the loop goes on.
FailureNeverPropagates ==
  /\ pc # "crashed"
  /\ \A a \in 1..Len(steps) :
       steps[a].raised =>
         /\ steps[a].result = NoneVal
         /\ CoordKey(steps[a].p) \in DOMAIN cache
         /\ cache[CoordKey(steps[a].p)] = NoneVal
         /\ a < i

\* reverse() failed on one coordinate and the next coordinate, with another
\* key, was resolved after it
FailureNeverPropagatesWitness ==
  \E a \in 1..Len(steps) :
    /\ steps[a].raised /\ a < Len(steps)
    /\ CoordKey(steps[a + 1].p) # CoordKey(steps[a].p)
    /\ steps[a + 1].reverse /\ Truthy(steps[a + 1].result)

\* some key of the hybrid gazetteer lies within max_distance_km=25.0 of p
NearHybridEntry(p) ==
  \E n \in 1..Len(hybrid_major_cities_literal) :
    calculate_distance(p, hybrid_major_cities_literal[n][1]) <= HybridMaxDistance

\* C6: every iteration of the hybrid loop consults the offline tier; a
\* coordinate with a gazetteer entry in reach (the one near Albuquerque
\* yields "Albuquerque") causes no reverse() call, no cache lookup and no
\* change of the cache; the online tier runs only for the other coordinates.
OfflineTierFirst ==
  [][ (finder = "hybrid" /\ Len(steps') = Len(steps) + 1) =>
        LET s == steps'[Len(steps')]
        IN  /\ s.consulted
            /\ (s.p = PointAt(351000000, -1066200000) => s.result = Str(<<"Albuquerque">>))
            /\ (NearHybridEntry(s.p) =>
                  (s.tier = "offline" /\ ~s.reverse /\ ~s.lookup /\ cache' = cache))
            /\ (~NearHybridEntry(s.p) => s.tier = "online") ]_vars

\* a hybrid run that answered one coordinate offline and sent another one to
\* the collaborator
OfflineTierFirstWitness ==
  /\ finder = "hybrid"
  /\ \E a, b \in 1..Len(steps) :
       /\ steps[a].tier = "offline" /\ steps[a].result = Str(<<"Albuquerque">>)
       /\ steps[b].tier = "online" /\ steps[b].reverse
  /\ Cardinality(DOMAIN cache) = 1

\* C15: in the run of a fresh process after a run that returned, on the same
\* track, no iteration calls reverse(), every iteration gives the result the
\* same iteration gave in the earlier run, and the run returns the same cities.
CacheSurvivesRuns ==
  earlier.done =>
    /\ Len(steps) <= Len(earlier.steps)
    /\ \A a \in 1..Len(steps) :
         /\ ~steps[a].reverse
         /\ steps[a].p = earlier.steps[a].p
         /\ steps[a].result = earlier.steps[a].result
    /\ pc = "done" => (Len(steps) = Len(earlier.steps) /\ cities = earlier.cities)

\* the second run returned; the earlier one had called reverse() twice, once
\* for a name and once in vain
CacheSurvivesRunsWitness ==
  /\ earlier.done /\ pc = "done"
  /\ \E a, b \in 1..Len(earlier.steps) :
       /\ earlier.steps[a].reverse /\ Truthy(earlier.steps[a].result)
       /\ earlier.steps[b].reverse /\ earlier.steps[b].raised

----------------------------------------------------------------------------
(* Properties of the offline tier *)

\* the entries of the finder that was called, as its source lists them
CalledLiteral ==
  IF offline.finder = "hybrid" THEN hybrid_major_cities_literal
  ELSE offline_major_cities_literal

DistanceToEntry(n) == calculate_distance(offline.p, CalledLiteral[n][1])

MinEntryDistance == Min({DistanceToEntry(n) : n \in 1..Len(CalledLiteral)})

\* C7: among the listed entries at the minimum distance, those with equal
\* coordinates included, the offline tier returns the name of the first one
\* in the order of the list.
FirstListedEntryWins ==
  (offline.phase = "called" /\ MinEntryDistance <= offline.max_distance_km) =>
    LET nearest == {n \in 1..Len(CalledLiteral) : DistanceToEntry(n) = MinEntryDistance}
    IN  offline.city = Str(CalledLiteral[Min(nearest)][2])

\* C8: the offline tier returns the name of an entry at the minimum distance
\* exactly when that distance is at most max_distance_km, and None exactly
\* when every entry is farther.
NearestWithinThreshold ==
  offline.phase = "called" =>
    /\ (MinEntryDistance <= offline.max_distance_km) =>
         /\ ~offline.city.isNone
         /\ \E n \in 1..Len(CalledLiteral) :
              /\ DistanceToEntry(n) = MinEntryDistance
              /\ offline.city = Str(CalledLiteral[n][2])
    /\ (MinEntryDistance > offline.max_distance_km) => offline.city = NoneVal

\* a call whose nearest entry lies exactly max_distance_km away, with a
\* second entry farther away
NearestWithinThresholdWitness ==
  /\ offline.phase = "called"
  /\ offline.max_distance_km > 0
  /\ MinEntryDistance = offline.max_distance_km
  /\ offline.city = Str(<<"Albuquerque">>)

----------------------------------------------------------------------------
(* Properties of the reducers *)

\* C9: the sequence a reducer returns is no longer than max_samples.
ReducerSizeBound ==
  /\ reducer.phase = "smart_sampling" =>
       Len(reducer.out.sampled) <= reducer.max_samples
  /\ (reducer.phase = "smart_sample_coordinates" /\ ~reducer.out.raised) =>
       Len(reducer.out.sampled) <= reducer.max_samples

\* C10: when the farthest-point stage runs, on the clustered coordinates,
\* more of them than max_samples, its output holds the first and the last
\* of them.
FarthestPointKeepsEndpoints ==
  (reducer.phase = "smart_sampling" /\ reducer.out.stage = "farthest") =>
    /\ Len(reducer.out.clustered) > reducer.max_samples
    /\ Contains(reducer.out.sampled, reducer.out.clustered[1])
    /\ Contains(reducer.out.sampled, reducer.out.clustered[Len(reducer.out.clustered)])

\* the stage ran on four clustered coordinates and the greedy loop added one
FarthestPointKeepsEndpointsWitness ==
  /\ reducer.phase = "smart_sampling" /\ reducer.out.stage = "farthest"
  /\ Len(reducer.out.clustered) = 4
  /\ Len(reducer.out.sampled) = 3
  /\ reducer.out.sampled[3] # reducer.out.clustered[4]

\* s can be obtained from t by deleting elements: the elements of s occur
\* in t in the same relative order
RECURSIVE IsOrderedSubsequence(_, _)
IsOrderedSubsequence(s, t) ==
  IF s = <<>> THEN TRUE
  ELSE IF t = <<>> THEN FALSE
  ELSE IF Head(s) = Head(t) THEN IsOrderedSubsequence(Tail(s), Tail(t))
  ELSE IsOrderedSubsequence(s, Tail(t))

OrderedOutsideFarthestStage ==
  /\ reducer.phase = "cluster_coordinates" =>
       IsOrderedSubsequence(reducer.out.sampled, reducer.coordinates)
  /\ (reducer.phase = "smart_sampling" /\ reducer.out.stage # "farthest") =>
       IsOrderedSubsequence(reducer.out.sampled, reducer.coordinates)
  /\ (reducer.phase = "smart_sample_coordinates" /\ ~reducer.out.raised) =>
       IsOrderedSubsequence(reducer.out.sampled, reducer.coordinates)

\* the smallest distance between two elements of s, for two or more of them
MinPairwiseGap(s) ==
  Min({calculate_distance(s[pair[1]], s[pair[2]]) :
         pair \in {pr \in (1..Len(s)) \X (1..Len(s)) : pr[1] < pr[2]}})

\* the farthest-point stage has run: reducer.out.sampled is the first and
\* the last of reducer.out.clustered, then the additions
FarthestStageRan == reducer.phase = "smart_sampling" /\ reducer.out.stage = "farthest"

\* the positions of the additions in the output of the stage
Additions == 3..Len(reducer.out.sampled)

\* the output of the stage before the addition at position k
SelectedBefore(k) == SubSeq(reducer.out.sampled, 1, k - 1)

\* the indices of the clustered coordinates not selected before the
\* addition at position k
UnselectedBefore(k) ==
  {n \in 1..Len(reducer.out.clustered) :
     ~Contains(SelectedBefore(k), reducer.out.clustered[n])}

\* C27 as stated: the smallest distance between two selected points is
\* larger after every addition than before it.
GapStrictlyIncreases ==
  FarthestStageRan =>
    \A k \in Additions :
      MinPairwiseGap(SubSeq(reducer.out.sampled, 1, k)) > MinPairwiseGap(SelectedBefore(k))

\* C27 as amended: no addition makes the smallest distance between two
\* selected points larger, and every addition leaves it as large as the
\* addition of any other unselected coordinate would have.
GapLoweredLeast ==
  FarthestStageRan =>
    \A k \in Additions :
      /\ MinPairwiseGap(SubSeq(reducer.out.sampled, 1, k)) <= MinPairwiseGap(SelectedBefore(k))
      /\ \A n \in UnselectedBefore(k) :
           MinPairwiseGap(Append(SelectedBefore(k), reducer.out.clustered[n]))
             <= MinPairwiseGap(SubSeq(reducer.out.sampled, 1, k))

\* an addition has lowered the gap, and another unselected coordinate
\* would have lowered it more
GapLoweredLeastWitness ==
  /\ FarthestStageRan
  /\ \E k \in Additions :
       /\ MinPairwiseGap(SubSeq(reducer.out.sampled, 1, k)) < MinPairwiseGap(SelectedBefore(k))
       /\ \E n \in UnselectedBefore(k) :
            MinPairwiseGap(Append(SelectedBefore(k), reducer.out.clustered[n]))
              < MinPairwiseGap(SubSeq(reducer.out.sampled, 1, k))

\* the distance of clustered coordinate n to the nearest coordinate
\* selected before the addition at position k
NearestSelected(n, k) ==
  Min({calculate_distance(reducer.out.clustered[n], SelectedBefore(k)[j]) :
         j \in 1..(k - 1)})

\* C28: every addition of the farthest-point stage is the unselected
\* coordinate farthest from its nearest selected coordinate, the one of
\* the smallest index among several as far; and the loop ends only with
\* no fewer than max_samples coordinates in the output or with no
\* unselected coordinate left.
FarthestPointRule ==
  FarthestStageRan =>
    /\ \A k \in Additions :
         \E n \in UnselectedBefore(k) :
           /\ reducer.out.sampled[k] = reducer.out.clustered[n]
           /\ \A m \in UnselectedBefore(k) :
                /\ NearestSelected(m, k) <= NearestSelected(n, k)
                /\ NearestSelected(m, k) = NearestSelected(n, k) => n <= m
    /\ \/ Len(reducer.out.sampled) >= reducer.max_samples
       \/ UnselectedBefore(Len(reducer.out.sampled) + 1) = {}

\* an addition has been made with two unselected coordinates as far from
\* the selected ones, and the loop has ended with max_samples coordinates
\* and an unselected one left
FarthestPointRuleWitness ==
  /\ FarthestStageRan
  /\ Len(reducer.out.sampled) = reducer.max_samples
  /\ UnselectedBefore(Len(reducer.out.sampled) + 1) # {}
  /\ \E k \in Additions :
       \E n, m \in UnselectedBefore(k) :
         /\ n < m
         /\ reducer.out.sampled[k] = reducer.out.clustered[n]
         /\ NearestSelected(m, k) = NearestSelected(n, k)

\* C29: the first coordinate of a non-empty input of cluster_coordinates
\* is in the output, any two coordinates of the output are more than
\* cluster_radius_km apart, and every coordinate of the input is within
\* cluster_radius_km of a coordinate of the output that stands at its own
\* position in the input or before it.
SeparatedCover ==
  (reducer.phase = "cluster_coordinates" /\ reducer.coordinates # <<>>) =>
    LET reps == reducer.out.sampled
    IN  /\ reps # <<>> /\ reps[1] = reducer.coordinates[1]
        /\ \A a, b \in 1..Len(reps) :
             a # b => calculate_distance(reps[a], reps[b]) > reducer.cluster_radius_km
        /\ \A k \in 1..Len(reducer.coordinates) :
             \E j \in 1..k :
               /\ Contains(reps, reducer.coordinates[j])
               /\ calculate_distance(reducer.coordinates[j], reducer.coordinates[k])
                    <= reducer.cluster_radius_km

\* a call with two representatives, the first of which has claimed a
\* coordinate that does not stand right behind it
SeparatedCoverWitness ==
  /\ reducer.phase = "cluster_coordinates"
  /\ Len(reducer.out.sampled) = 2
  /\ Len(reducer.coordinates) >= 3
  /\ reducer.coordinates[2] = reducer.out.sampled[2]
  /\ calculate_distance(reducer.coordinates[1], reducer.coordinates[3])
       <= reducer.cluster_radius_km
  /\ reducer.coordinates[3] # reducer.coordinates[1]

\* C25: the segments segment_route_geographically returns are non-empty
\* and their concatenation, in order, is the input; for an input longer
\* than num_segments there are num_segments of them, each of
\* floor(n / num_segments) coordinates but the last, which has these and
\* the remainder.
SegmentsPartition ==
  reducer.phase = "segment_route_geographically" =>
    LET segments == reducer.out.segments
        n == Len(reducer.coordinates)
        num_segments == reducer.num_segments
    IN  /\ \A k \in 1..Len(segments) : segments[k] # <<>>
        /\ Concat(segments) = reducer.coordinates
        /\ n > num_segments =>
             /\ Len(segments) = num_segments
             /\ \A k \in 1..(num_segments - 1) : Len(segments[k]) = n \div num_segments
             /\ Len(segments[num_segments]) = (n \div num_segments) + (n % num_segments)

\* an input longer than num_segments whose length is no multiple of it has
\* been divided in more than one segment
SegmentsPartitionWitness ==
  /\ reducer.phase = "segment_route_geographically"
  /\ reducer.num_segments > 1
  /\ Len(reducer.coordinates) > reducer.num_segments
  /\ Len(reducer.coordinates) % reducer.num_segments # 0
  /\ Len(reducer.out.segments[reducer.num_segments]) > Len(reducer.out.segments[1])

\* the sample is the concatenation of one part per segment, part k being
\* segments[k] at the stride stride[k] from its first coordinate
SampledAtStrides(sampled, segments, stride) ==
  sampled = Concat([k \in 1..Len(segments) |-> Stride(segments[k], stride[k])])

\* C26: the sample of sample_from_segments holds, of every segment, at most
\* samples_per_segment coordinates and at least one, taken at one stride
\* from the first coordinate of the segment, so it is no longer than
\* num_segments * samples_per_segment.
SampleFromSegmentsBound ==
  reducer.phase = "sample_from_segments" =>
    LET segments == reducer.out.segments
    IN  /\ Len(reducer.out.sampled) <= reducer.num_segments * reducer.samples_per_segment
        /\ \E stride \in [1..Len(segments) -> 1..(Len(reducer.coordinates) + 1)] :
             /\ SampledAtStrides(reducer.out.sampled, segments, stride)
             /\ \A k \in 1..Len(segments) :
                  /\ Len(Stride(segments[k], stride[k])) <= reducer.samples_per_segment
                  /\ Len(Stride(segments[k], stride[k])) >= 1

\* the part of C26 the code keeps: of every segment at least one
\* coordinate, at one stride from its first coordinate
SampleFromSegmentsStride ==
  reducer.phase = "sample_from_segments" =>
    \E stride \in [1..Len(reducer.out.segments) -> 1..(Len(reducer.coordinates) + 1)] :
      SampledAtStrides(reducer.out.sampled, reducer.out.segments, stride)

----------------------------------------------------------------------------
(* Properties of the cache file *)

\* the file cannot be read as a mapping
Unreadable(f) == f.exists /\ json_load(f.content).raised

\* C12: constructing a finder, or loading the cache of the route orderer,
\* when the cache file is absent or cannot be read as a mapping gives an
\* empty in-memory cache and a process that goes on.
LoadDegrades ==
  [][(/\ store.phase = "stopped" /\ store'.phase # "stopped"
      /\ (~store.file.exists \/ Unreadable(store.file)))
       => (store'.phase \in {"running", "orderer"} /\ store'.cache = EmptyCache)]_vars

\* C13: no step of a process, the steps of save_cache included, takes the
\* file from a complete mapping (or no file) to anything but a complete
\* mapping: it leaves the file as it is or makes it the in-memory cache.
AtomicFlush ==
  [][(~Unreadable(store.file))
       => \/ store'.file = store.file
          \/ /\ store'.file.exists /\ ~Unreadable(store'.file)
             /\ json_load(store'.file.content).value = store.cache]_vars

\* C14: when save_cache ends, load_cache of the file gives the in-memory
\* mapping; when it ends and nothing was inserted since the last load or
\* save, the mapping of the file is the one it held before; and a process
\* that starts after such a save loads the mapping the last process held.
CacheRoundTrip ==
  [][/\ (store.phase = "saving" /\ store'.phase = "running") =>
          /\ load_cache(store'.file) = [raised |-> FALSE, value |-> store.cache]
          /\ store.resave => load_cache(store'.file).value = store.persisted
     /\ (store.phase = "stopped" /\ store.synced /\ store'.phase \in {"running", "aborted"}) =>
          /\ store'.phase = "running"
          /\ store'.cache = store.cache]_vars

\* a process loaded what the last one saved, a None and a name among it,
\* and saved it again with no insert
CacheRoundTripWitness ==
  /\ store.phase = "running" /\ store.reloaded /\ store.last = "reflush"
  /\ \E k \in DOMAIN store.cache : store.cache[k] = NoneVal
  /\ \E k \in DOMAIN store.cache : store.cache[k] = Str(<<"Amarillo">>)

----------------------------------------------------------------------------
(* Properties of the name filter *)

\* sub occurs in name, letter case ignored
HasSubstring(name, sub) ==
  \E pos \in 1..(Len(name) - Len(sub) + 1) :
    ToLower(SubSeq(name, pos, pos + Len(sub) - 1)) = ToLower(sub)

\* name begins with a route code followed by whitespace and then digits
BeginsWithRouteCode(name) ==
  \E pre \in RouteCodes : \E w \in 1..Len(name) :
    /\ Len(pre) + w < Len(name)
    /\ ToLower(SubSeq(name, 1, Len(pre))) = ToLower(pre)
    /\ \A j \in (Len(pre) + 1)..(Len(pre) + w) : name[j] \in Whitespace
    /\ name[Len(pre) + w + 1] \in Digits

ContainsKeyword(name) == \E kw \in Keywords : HasSubstring(name, kw)

\* C16: is_likely_city rejects "US 40", "I 80", "123" and "", accepts
\* "Tulsa" and "Santa Fe", rejects every name that begins with a route code
\* followed by whitespace and digits, and rejects every name that contains
\* one of the keywords Highway, Road, Trail, Expressway, Frontage Road,
\* Division.
FilterRejectsRoutesAndKeywords ==
  filter.phase = "returned" =>
    /\ filter.name \in {<<"U", "S", " ", "4", "0">>, <<"I", " ", "8", "0">>, <<"1", "2", "3">>, <<>>} => ~filter.result
    /\ filter.name \in {<<"T", "u", "l", "s", "a">>, <<"S", "a", "n", "t", "a", " ", "F", "e">>} => filter.result
    /\ BeginsWithRouteCode(filter.name) => ~filter.result
    /\ ContainsKeyword(filter.name) => ~filter.result

\* a keyword in lower case inside a longer name, rejected
FilterRejectsRoutesAndKeywordsWitness ==
  /\ filter.phase = "returned" /\ ~filter.result
  /\ filter.name = <<"O", "l", "d", " ", "f", "r", "o", "n", "t", "a", "g", "e", " ", "r", "o", "a", "d", "s">>

\* digits, one at least, with any whitespace before and after them
DigitsInWhitespace(name) ==
  \E a, b \in 1..Len(name) :
    /\ a <= b
    /\ \A j \in 1..Len(name) :
         IF a <= j /\ j <= b THEN name[j] \in Digits ELSE name[j] \in Whitespace

\* C17: is_likely_city rejects the empty string and every string of digits
\* with whitespace around them, before, after or both.
FilterRejectsNumeric ==
  (filter.phase = "returned" /\ (filter.name = <<>> \/ DigitsInWhitespace(filter.name)))
    => ~filter.result

\* the part of C17 the code keeps: nothing or whitespace before the digits
\* is not required, only after them
FilterRejectsDigitsThenWhitespace ==
  (/\ filter.phase = "returned"
   /\ \/ filter.name = <<>>
      \/ DigitsInWhitespace(filter.name) /\ filter.name[1] \in Digits)
    => ~filter.result

\* the names of the list that are plain text and not a keyword
ListedEntries ==
  {non_city_patterns[n][1][2] :
     n \in {m \in 1..Len(non_city_patterns) :
              Len(non_city_patterns[m]) = 1 /\ non_city_patterns[m][1][1] = "lit"}}
    \ Keywords

\* the name is an entry of the list, letter case ignored
IsListed(name) == \E e \in ListedEntries : ToLower(name) = ToLower(e)

\* C18: is_likely_city accepts every name of two characters or more that is
\* not numeric, contains no keyword, does not begin with a route code and
\* is not itself an entry of the list of specific names, also when it
\* contains such an entry.
FilterAcceptsUnlisted ==
  (/\ filter.phase = "returned"
   /\ Len(filter.name) >= 2
   /\ ~DigitsInWhitespace(filter.name)
   /\ ~ContainsKeyword(filter.name)
   /\ ~BeginsWithRouteCode(filter.name)
   /\ ~IsListed(filter.name))
    => filter.result

\* the part of C18 the code keeps: such a name is accepted when no entry of
\* the list occurs in it
FilterAcceptsWithoutListedPart ==
  (/\ filter.phase = "returned"
   /\ Len(filter.name) >= 2
   /\ ~DigitsInWhitespace(filter.name)
   /\ ~ContainsKeyword(filter.name)
   /\ ~BeginsWithRouteCode(filter.name)
   /\ \A e \in ListedEntries : ~HasSubstring(filter.name, e))
    => filter.result

----------------------------------------------------------------------------
(* Properties of clean_city_list and of the route orderer *)

\* the elements of s at the indices of keep, from the k-th on
RECURSIVE SubsequenceAt(_, _, _)
SubsequenceAt(s, keep, k) ==
  IF k > Len(s) THEN <<>>
  ELSE (IF k \in keep THEN <<s[k]>> ELSE <<>>) \o SubsequenceAt(s, keep, k + 1)

\* the first occurrence of every name of inp
FirstOccurrences(inp) ==
  SubsequenceAt(inp, {k \in 1..Len(inp) : \A j \in 1..(k - 1) : inp[j] # inp[k]}, 1)

\* the first occurrence of every name of inp the filter accepts
FirstAcceptedOccurrences(inp) ==
  SubsequenceAt(inp, {k \in 1..Len(inp) : /\ is_likely_city(inp[k])
                                          /\ \A j \in 1..(k - 1) : inp[j] # inp[k]}, 1)

\* out has one entry per name, only names the filter accepts, and these in
\* the order of their first occurrence in inp
DedupedAccepted(out, inp) ==
  /\ \A a, b \in 1..Len(out) : a # b => out[a] # out[b]
  /\ \A a \in 1..Len(out) : is_likely_city(out[a])
  /\ out = FirstAcceptedOccurrences(inp)

\* the names the coordinates of a route resolve to, in the order of the route
RECURSIVE ResolvedNames(_, _)
ResolvedNames(city_cache, coords) ==
  IF coords = <<>> THEN <<>>
  ELSE LET city == get_city_for_coordinate(city_cache, Head(coords).p)
       IN  (IF Truthy(city) THEN <<city.text>> ELSE <<>>)
             \o ResolvedNames(city_cache, Tail(coords))

\* the names of the list find_cities_in_route_order returned
FoundNames == [k \in 1..Len(dedup.out) |-> dedup.out[k][1]]

\* C19: what clean_city_list returns, and the names of the list
\* find_cities_in_route_order builds, hold every name once, hold only names
\* the filter accepts, and keep the accepted names in the order of their
\* first occurrence in the input.
DedupedAcceptedInOrder ==
  /\ dedup.phase = "clean_city_list" => DedupedAccepted(dedup.out, dedup.cities)
  /\ dedup.phase = "find_cities_in_route_order" =>
       DedupedAccepted(FoundNames, ResolvedNames(dedup.city_cache, dedup.coordinates))

\* the part of C19 the code keeps: clean_city_list as stated, and the
\* route orderer with every resolved name once, in the order of first
\* occurrence
DedupedInOrder ==
  /\ dedup.phase = "clean_city_list" => DedupedAccepted(dedup.out, dedup.cities)
  /\ dedup.phase = "find_cities_in_route_order" =>
       FoundNames = FirstOccurrences(ResolvedNames(dedup.city_cache, dedup.coordinates))

\* the times of the coordinates of the route that resolve to name
ResolutionTimes(name) ==
  {dedup.coordinates[k].timestamp :
     k \in {j \in 1..Len(dedup.coordinates) :
              get_city_for_coordinate(dedup.city_cache, dedup.coordinates[j].p) = Str(name)}}

\* the route of Tulsa at 3 s, Tulsa at 1 s, Santa Fe at 2 s, Tulsa at 5 s
ExampleRoute ==
  << RouteCoordinate(PointAt(352000000, -1018000000), 6, "route.gpx"),
     RouteCoordinate(PointAt(352000003, -1018000003), 2, "route.gpx"),
     RouteCoordinate(PointAt(352100000, -1018000000), 4, "route.gpx"),
     RouteCoordinate(PointAt(352000000, -1018000000), 10, "route.gpx") >>

FirstSeenIsMinimumWhenSorted ==
  (/\ dedup.phase = "find_cities_in_route_order"
   /\ \A a, b \in 1..Len(dedup.coordinates) :
        a < b => dedup.coordinates[a].timestamp <= dedup.coordinates[b].timestamp)
    => \A k \in 1..Len(dedup.out) :
         dedup.out[k][2] = strftime(Min(ResolutionTimes(dedup.out[k][1])))

\* the names the points of the files resolve to: first the points with a
\* time in the order of their times, then the points with no time in the
\* order of the files
ChronologicalNames(city_cache, points) ==
  LET untimed == SelectSeq(points, LAMBDA pt : pt.time = <<>>)
  IN  ResolvedNames(city_cache, extract_route_coordinates(points))
        \o ResolvedNames(city_cache, untimed)

\* C21: the list process_route returns is in ascending order of the time
\* of its entries, and it holds every name a point of the files resolves
\* to, the names only points with no time resolve to behind all the others
\* and in the order of the files.
ChronologicalWithUntimedLast ==
  dedup.phase = "process_route" =>
    /\ \A a, b \in 1..Len(dedup.out) : a < b => dedup.out[a][2] <= dedup.out[b][2]
    /\ FoundNames = FirstOccurrences(ChronologicalNames(dedup.city_cache, dedup.points))

\* the part of C21 the code keeps: the names the points with a time resolve
\* to, in ascending order of the time of their entries
ChronologicalAmongTimed ==
  dedup.phase = "process_route" =>
    /\ \A a, b \in 1..Len(dedup.out) : a < b => dedup.out[a][2] <= dedup.out[b][2]
    /\ FoundNames = FirstOccurrences(ResolvedNames(dedup.city_cache, dedup.coordinates))

----------------------------------------------------------------------------
(* Properties of final_cities_with_nyc.main *)

\* the longitude the west-to-east view is to give a name
AssignedLongitude(name) ==
  LET entries == {k \in 1..Len(city_longitudes) : city_longitudes[k][1] = name}
  IN  IF entries # {} THEN city_longitudes[CHOOSE k \in entries : TRUE][2]
      ELSE IF HasSubstring(name, <<"T", "o", "w", "n", "s", "h", "i", "p">>) \/ HasSubstring(name, <<"P", "e", "n", "n", "s", "y", "l", "v", "a", "n", "i", "a">>)
        THEN -770000
      ELSE -1000000

\* C22: the rows main writes are the names of its list cities, every name
\* as often as in the list, each with its assigned longitude (the value of
\* the table for a name in it, else -77.0 for a name with Township or
\* Pennsylvania, else -100.0), in ascending order of longitude, names of
\* equal longitude in the order of the list.
WestToEast ==
  final.phase = "done" =>
    LET n == Len(final.cities)
    IN  /\ Len(final.out) = n
        /\ \A k \in 1..n : final.out[k][3] = AssignedLongitude(final.out[k][2])
        /\ \A a, b \in 1..n : a < b => final.out[a][3] <= final.out[b][3]
        /\ \E f \in [1..n -> 1..n] :
             /\ \A a, b \in 1..n : a # b => f[a] # f[b]
             /\ \A k \in 1..n : final.out[f[k]][2] = final.cities[k]
             /\ \A a, b \in 1..n :
                  (a < b /\ AssignedLongitude(final.cities[a]) = AssignedLongitude(final.cities[b]))
                    => f[a] < f[b]

\* a list with a name of neither kind, a name with Township that is not in
\* the table, one that is in it with the same longitude, and New York
\* appended, has been sorted
WestToEastWitness ==
  /\ final.phase = "done"
  /\ final.rows = <<<<<<"H", "a", "n", "o", "v", "e", "r", " ", "T", "o", "w", "n", "s", "h", "i", "p">>>>, <<<<"M", "e", "t", "a", "l", " ", "T", "o", "w", "n", "s", "h", "i", "p">>>>, <<<<"A", "m", "a", "r", "i", "l", "l", "o">>>>>>
  /\ final.out = << <<1, <<"A", "m", "a", "r", "i", "l", "l", "o">>, -1000000>>, <<2, <<"H", "a", "n", "o", "v", "e", "r", " ", "T", "o", "w", "n", "s", "h", "i", "p">>, -770000>>,
                    <<3, <<"M", "e", "t", "a", "l", " ", "T", "o", "w", "n", "s", "h", "i", "p">>, -770000>>, <<4, <<"N", "e", "w", " ", "Y", "o", "r", "k">>, -740060>> >>

----------------------------------------------------------------------------
(* Properties of get_city_names *)

\* C23: the set of cities changes only in a step of the task that holds
\* the lock, no two tasks are inside the with block at once, and the list
\* get_city_names returns holds the cities the calls of reverse have
\* returned, each once, in ascending order, whatever the interleaving.
LockedUpdates ==
  [][/\ pool'.cities # pool.cities =>
          pool.lock \in DOMAIN pool.tasks /\ pool.tasks[pool.lock] = "add"
     /\ \A t, u \in DOMAIN pool'.tasks :
          (pool'.tasks[t] = "add" /\ pool'.tasks[u] = "add") => t = u
     /\ pool'.main = "returned" =>
          /\ {pool'.result[k] : k \in 1..Len(pool'.result)} = pool'.found
          /\ \A a, b \in 1..Len(pool'.result) :
               a < b => str_lt(pool'.result[a], pool'.result[b])]_vars

\* get_city_names, called with two coordinates, has returned the cities of
\* both, the city of the second coordinate first
LockedUpdatesWitness ==
  /\ pool.main = "returned"
  /\ Len(pool.tasks) = 2
  /\ pool.result = <<<<"A", "m", "a", "r", "i", "l", "l", "o">>, <<"T", "u", "l", "s", "a">>>>

\* C24: a task ends, and frees its worker for its next coordinate, only
\* out of the sleep that follows its call of reverse, and a task that
\* sleeps does not hold the lock.
DelayAfterEveryCall ==
  [][\A t \in DOMAIN pool.tasks :
       /\ (pool.tasks[t] # "done" /\ pool'.tasks[t] = "done") => pool.tasks[t] = "sleep"
       /\ pool'.tasks[t] = "sleep" => pool'.lock # t]_vars

\* the part of C24 main.py keeps: a task whose call of reverse has not
\* raised ends only out of its sleep, and a task that sleeps does not hold
\* the lock
DelayAfterAnsweredCall ==
  [][\A t \in DOMAIN pool.tasks :
       /\ (pool.tasks[t] # "done" /\ pool'.tasks[t] = "done") =>
            pool.tasks[t] = "sleep" \/ (pool.tasks[t] = "reverse" /\ pool'.failed)
       /\ pool'.tasks[t] = "sleep" => pool'.lock # t]_vars

\* C30: no more than MAX_WORKERS tasks run at a time; get_city_names has
\* returned only with every task done; and until it has returned a step
\* is possible, whether a call of reverse has raised or not.
PoolDrains ==
  /\ Cardinality(Running(pool.tasks)) <= MAX_WORKERS
  /\ pool.main = "returned" => \A t \in DOMAIN pool.tasks : pool.tasks[t] = "done"
  /\ pool.main # "returned" => ENABLED PoolNext

\* get_city_names has returned a city for more coordinates than workers,
\* one of them with a call of reverse that raised
PoolDrainsWitness ==
  /\ pool.main = "returned"
  /\ Len(pool.tasks) > MAX_WORKERS
  /\ pool.failed
  /\ pool.result # <<>>

====
